---- MODULE Spec2Model ----
(***************************************************************************)
(* A model of mcp-box: the agent-configuration adapters (read, write,      *)
(* validate, add/remove/update/merge/import/toggle), the backup and        *)
(* restore of MCPBoxConfigManager, and the registry search.                *)
(*                                                                         *)
(* Modelling conventions                                                   *)
(*  - A JSON object is a TLA+ record whose DOMAIN is the set of keys the    *)
(*    object has; a key whose value is undefined is a key that is absent   *)
(*    (JSON.stringify drops it, zod's optional() accepts it).              *)
(*  - The order of the keys of an object is not modelled.                  *)
(*  - Server ids are ordinary names (not names that every JavaScript       *)
(*    object inherits, such as "constructor").                             *)
(*  - A file is its kind (absent, blank, garbage, noaccess, json), the     *)
(*    layout of its text (written by JSON.stringify(x, null, 2), or laid   *)
(*    out by hand) and the JSON value it holds.                            *)
(***************************************************************************)
EXTENDS Integers, Sequences, FiniteSets, TLC

VARIABLES
    adapter,      \* the agent whose adapter the calls are made on
    files,        \* the disk: what each configuration path holds
    backups,      \* the backup directory: what each backup path holds
    now,          \* the clock
    last,         \* the last call on the adapter and its outcome
    held,         \* per backup id: what read(scope) returned when backup(scope) returned it
    budget,       \* the number of calls the run may still make
    registryFile, \* what the registry file (servers.json) holds
    registry,     \* MCPRegistryManager.registry
    lastLoaded,   \* MCPRegistryManager.lastLoaded
    searched,     \* the outcome of the last search
    fileReads,    \* the number of times the registry file was read (fs.readFile)
    callers,      \* the registry operations that were started and have not returned
    cli,          \* the process that runs one command of the command line
    keychain,     \* the system keychain: the passwords of the service, by account
    security      \* the SecurityManager: its config, its last call and the outcome

\* The variables of the adapters and of the backups, and those of the registry.
adapterVars == <<adapter, files, backups, last, held, budget>>
registryVars == <<registryFile, registry, lastLoaded, searched, fileReads, callers>>
securityVars == <<keychain, security>>

vars == <<adapterVars, now, registryVars, cli, securityVars>>

(***************************************************************************)
(* JSON values                                                             *)
(***************************************************************************)

\* JavaScript's undefined: what reading an absent key gives.
Undef == "<undefined>"

\* A JSON number where a string is expected.
NumVal == "<number>"

\* obj[key]
Get(obj, key) == IF key \in DOMAIN obj THEN obj[key] ELSE Undef

\* typeof v === 'string', of a scalar field
IsString(v) == v \notin {Undef, NumVal}

\* !!v, of a scalar (string) field
Truthy(v) == v \notin {Undef, ""}

\* {}
EmptyObj == [k \in {} |-> ""]

\* obj with key set to val (obj[key] = val)
Put(obj, key, val) == [k \in DOMAIN obj \cup {key} |-> IF k = key THEN val ELSE obj[k]]

\* obj with key deleted (delete obj[key])
Del(obj, key) == [k \in DOMAIN obj \ {key} |-> obj[k]]

\* new URL(s) does not throw
IsUrl(s) == s \in {"https://example.com/mcp", "https://example.com/sse"}

\* s.trim()
Trim(s) == IF s \in {"", " "} THEN "" ELSE s


(***************************************************************************)
(* Agents, scopes and paths (src/utils/paths.ts, on Linux)                 *)
(***************************************************************************)

\* The agents that have an adapter class: ClaudeAdapter and VSCodeAdapter.
Adapters == {"claude", "vscode"}

\* 'user' | 'project' ('remote' resolves exactly as 'user' and is left out)
Scopes == {"user", "project"}

\* getAgentConfigPaths(agent): the user path, the project path, the alternatives
getAgentConfigPaths(agent) ==
    IF agent = "claude"
    THEN [user |-> "~/.claude/settings.json",
          project |-> "./.claude/settings.json",
          alternative |-> <<>>]
    ELSE [user |-> "~/.config/Code/User/mcp.json",
          project |-> "./.vscode/mcp.json",
          alternative |-> <<"~/.vscode/mcp.json">>]

\* getAgentConfigPath(agent, scope): the path a write goes to. Every agent has
\* a project path, so `paths.project || paths.user` is paths.project.
getAgentConfigPath(agent, scope) ==
    IF scope = "project"
    THEN getAgentConfigPaths(agent).project
    ELSE getAgentConfigPaths(agent).user

\* Every path an agent's configuration may be at.
AgentPaths(agent) ==
    LET p == getAgentConfigPaths(agent)
    IN  {p.user, p.project} \cup {p.alternative[i] : i \in DOMAIN p.alternative}

AllPaths == UNION {AgentPaths(a) : a \in Adapters}

(***************************************************************************)
(* Files                                                                   *)
(***************************************************************************)

\* The value of a file that holds no JSON value.
NoDoc == [none |-> TRUE]

\* No file at the path.
Absent == [kind |-> "absent", layout |-> "-", val |-> NoDoc]

\* A file whose content is empty or only whitespace.
Blank == [kind |-> "blank", layout |-> "-", val |-> NoDoc]

\* A file whose content is not JSON ('invalid json').
Garbage == [kind |-> "garbage", layout |-> "-", val |-> NoDoc]

\* A file that exists and that this process may neither read nor write (EACCES).
NoAccess == [kind |-> "noaccess", layout |-> "-", val |-> NoDoc]

\* A file that holds the JSON value doc, laid out by hand.
HandFile(doc) == [kind |-> "json", layout |-> "hand", val |-> doc]

\* JSON.stringify(doc, null, 2) as the content of a file
StringifyPretty(doc) == [kind |-> "json", layout |-> "pretty", val |-> doc]

\* pathExists(path): fs.access succeeds
pathExists(fs, path) == fs[path].kind # "absent"

\* findConfigFile(agent, scope): the first existing path of
\* [project, user] (scope project) or [user, ...alternative]; "" for null
findConfigFile(fs, agent, scope) ==
    LET p == getAgentConfigPaths(agent)
        checkPaths == IF scope = "project"
                      THEN <<p.project, p.user>>
                      ELSE <<p.user>> \o p.alternative
        found == {i \in DOMAIN checkPaths : pathExists(fs, checkPaths[i])}
    IN  IF found = {} THEN ""
        ELSE checkPaths[CHOOSE i \in found : \A j \in found : i <= j]

\* fs.readFile(path, 'utf-8') followed by JSON.parse: the value, or the error
\* thrown. code is the error's `code` property ("" when it has none).
ReadJson(fs, path) ==
    LET f == fs[path]
    IN  CASE f.kind = "absent"   -> [ok |-> FALSE, code |-> "ENOENT", blank |-> FALSE, val |-> NoDoc]
          [] f.kind = "noaccess" -> [ok |-> FALSE, code |-> "EACCES", blank |-> FALSE, val |-> NoDoc]
          [] f.kind = "blank"    -> [ok |-> FALSE, code |-> "", blank |-> TRUE, val |-> NoDoc]
          [] f.kind = "garbage"  -> [ok |-> FALSE, code |-> "", blank |-> FALSE, val |-> NoDoc]
          [] OTHER               -> [ok |-> TRUE, code |-> "", blank |-> FALSE, val |-> f.val]

\* fs.writeFile(path, text) after ensureDir: the new disk, or EACCES
WriteFile(fs, path, text) ==
    IF fs[path].kind = "noaccess"
    THEN [ok |-> FALSE, fs |-> fs]
    ELSE [ok |-> TRUE, fs |-> [fs EXCEPT ![path] = text]]

(***************************************************************************)
(* The adapters: ClaudeAdapter and VSCodeAdapter over BaseAgentAdapter     *)
(***************************************************************************)

\* The key of the configuration that holds the servers (info.schema).
ServersKey(agent) == IF agent = "claude" THEN "mcpServers" ELSE "servers"

\* extractServers(config): config.mcpServers || {} (Claude), config.servers || {} (VS Code)
extractServers(agent, config) ==
    IF ServersKey(agent) \in DOMAIN config THEN config[ServersKey(agent)] ELSE EmptyObj

\* createConfigWithServers(servers): { mcpServers: servers } or { servers }
createConfigWithServers(agent, servers) ==
    IF agent = "claude" THEN [mcpServers |-> servers] ELSE [servers |-> servers]

\* claudeServerConfigSchema: the union of { command: string, args?, env? } and
\* { serverUrl: string }
claudeServerConfigSchema(e) ==
    \/ IsString(Get(e, "command"))
    \/ IsString(Get(e, "serverUrl"))

\* vscodeServerConfigSchema: the union of { type: 'local', command: string, ... },
\* { type: 'http', url: string, ... } and { type: 'sse', url: string, ... }
vscodeServerConfigSchema(e) ==
    \/ Get(e, "type") = "local" /\ IsString(Get(e, "command"))
    \/ Get(e, "type") \in {"http", "sse"} /\ IsString(Get(e, "url"))

\* getConfigSchema().parse(config): the issues zod reports
SchemaIssues(agent, config) ==
    IF ServersKey(agent) \notin DOMAIN config
    THEN {[path |-> <<ServersKey(agent)>>, code |-> "invalid_type"]}
    ELSE LET servers == config[ServersKey(agent)]
             bad(e) == IF agent = "claude"
                       THEN ~claudeServerConfigSchema(e)
                       ELSE ~vscodeServerConfigSchema(e)
         IN  {[path |-> <<ServersKey(agent), id>>, code |-> "invalid_union"] :
                 id \in {i \in DOMAIN servers : bad(servers[i])}}

\* BaseAgentAdapter.validate: valid exactly when the schema parses
baseValidate(agent, config) ==
    LET issues == SchemaIssues(agent, config)
    IN  [valid |-> issues = {}, errors |-> issues, warnings |-> {}]

\* validateClaudeServer(serverId, serverConfig): the error messages
validateClaudeServer(serverId, e) ==
    IF Truthy(Get(e, "serverUrl"))
    THEN IF IsUrl(e.serverUrl) THEN {} ELSE {"Invalid server URL"}
    ELSE IF Truthy(Get(e, "command"))
         THEN IF Trim(e.command) = "" THEN {"Empty command"} ELSE {}
         ELSE {"must have either 'command' or 'serverUrl'"}

\* validateVSCodeServer(serverId, serverConfig): the error messages
validateVSCodeServer(serverId, e) ==
    IF ~Truthy(Get(e, "type")) THEN {"must specify a type"}
    ELSE CASE e.type = "local" ->
                IF Truthy(Get(e, "command")) THEN {} ELSE {"must specify a command"}
           [] e.type \in {"http", "sse"} ->
                IF ~Truthy(Get(e, "url")) THEN {"must specify a URL"}
                ELSE IF IsUrl(e.url) THEN {} ELSE {"Invalid URL"}
           [] OTHER -> {"Invalid server type"}

\* key.toLowerCase() includes 'token', 'key', 'secret' or 'password'
IsSecretKey(key) == key \in {"API_KEY", "GITHUB_TOKEN"}

\* The env value is a reference to a variable: ${...} or $env:... (Claude),
\* ${input:...} (VS Code)
IsReference(agent, value) ==
    IF agent = "claude"
    THEN value \in {"${API_KEY}", "${input:apiKey}", "$env:API_KEY"}
    ELSE value \in {"${input:apiKey}"}

\* The warnings of validate: a disabled server (VS Code), a secret in plain text
Warnings(agent, servers) ==
    {[path |-> <<ServersKey(agent), id>>, code |-> "DISABLED_SERVER"] :
        id \in {i \in DOMAIN servers :
                   /\ agent = "vscode"
                   /\ "disabled" \in DOMAIN servers[i]
                   /\ servers[i].disabled}}
    \cup
    {[path |-> <<ServersKey(agent), id>>, code |-> "PLAINTEXT_SECRET"] :
        id \in {i \in DOMAIN servers :
                   /\ "env" \in DOMAIN servers[i]
                   /\ \E kv \in servers[i].env :
                        /\ IsSecretKey(kv[1])
                        /\ Truthy(kv[2])
                        /\ ~IsReference(agent, kv[2])}}

\* ClaudeAdapter.validate and VSCodeAdapter.validate: the base result when the
\* schema fails; else the per-server errors, valid false when there is one,
\* and the warnings
validateFailingOnWarnings(agent, config) ==
    LET baseResult == baseValidate(agent, config)
        servers == extractServers(agent, config)
        serverErrors(id) == IF agent = "claude"
                            THEN validateClaudeServer(id, servers[id])
                            ELSE validateVSCodeServer(id, servers[id])
        errors == {[path |-> <<ServersKey(agent), id>>, code |-> "INVALID_SERVER_CONFIG"] :
                      id \in {i \in DOMAIN servers : serverErrors(i) # {}}}
    IN  IF ~baseResult.valid THEN baseResult
        ELSE [valid |-> errors = {} /\ Warnings(agent, servers) = {}, errors |-> errors,
              warnings |-> Warnings(agent, servers)]

validate(agent, config) ==
    LET baseResult == baseValidate(agent, config)
        servers == extractServers(agent, config)
        serverErrors(id) == IF agent = "claude"
                            THEN validateClaudeServer(id, servers[id])
                            ELSE validateVSCodeServer(id, servers[id])
        errors == {[path |-> <<ServersKey(agent), id>>, code |-> "INVALID_SERVER_CONFIG"] :
                      id \in {i \in DOMAIN servers : serverErrors(i) # {}}}
    IN  IF ~baseResult.valid THEN baseResult
        ELSE [valid |-> errors = {}, errors |-> errors, warnings |-> Warnings(agent, servers)]

\* The outcome of a call that may change the disk: resolved (ok) or rejected
\* with an Error whose message is the parts of err joined by ': '.
Resolved(fs) == [ok |-> TRUE, err |-> <<>>, fs |-> fs]
Rejected(fs, err) == [ok |-> FALSE, err |-> err, fs |-> fs]

\* A read that returns what it parsed without validating it.
readUnvalidated(fs, agent, scope) ==
    LET configPath == findConfigFile(fs, agent, scope)
        empty == [ok |-> TRUE, err |-> <<>>, config |-> createConfigWithServers(agent, EmptyObj)]
        failed(why) == [ok |-> FALSE, err |-> <<"Failed to read configuration", why>>, config |-> NoDoc]
    IN  IF configPath = "" THEN empty
        ELSE LET r == ReadJson(fs, configPath)
             IN  CASE r.blank -> empty
                   [] ~r.ok /\ r.code = "ENOENT" -> empty
                   [] ~r.ok /\ r.code # "" -> failed(r.code)
                   [] ~r.ok -> failed("SyntaxError")
                   [] OTHER -> [ok |-> TRUE, err |-> <<>>, config |-> r.val]

\* A read that hands an empty file to JSON.parse.
readParsingBlank(fs, agent, scope) ==
    LET configPath == findConfigFile(fs, agent, scope)
        empty == [ok |-> TRUE, err |-> <<>>, config |-> createConfigWithServers(agent, EmptyObj)]
        failed(why) == [ok |-> FALSE, err |-> <<"Failed to read configuration", why>>, config |-> NoDoc]
    IN  IF configPath = "" THEN empty
        ELSE LET r == ReadJson(fs, configPath)
             IN  CASE ~r.ok /\ r.code = "ENOENT" -> empty
                   [] ~r.ok /\ r.code # "" -> failed(r.code)
                   [] ~r.ok -> failed("SyntaxError")
                   [] ~validate(agent, r.val).valid -> failed("Invalid configuration")
                   [] OTHER -> [ok |-> TRUE, err |-> <<>>, config |-> r.val]

\* read(scope): the configuration, or the rejection
read(fs, agent, scope) ==
    LET configPath == findConfigFile(fs, agent, scope)
        empty == [ok |-> TRUE, err |-> <<>>, config |-> createConfigWithServers(agent, EmptyObj)]
        failed(why) == [ok |-> FALSE, err |-> <<"Failed to read configuration", why>>, config |-> NoDoc]
    IN  IF configPath = "" THEN empty
        ELSE LET r == ReadJson(fs, configPath)
             IN  CASE r.blank -> empty
                   [] ~r.ok /\ r.code = "ENOENT" -> empty
                   [] ~r.ok /\ r.code # "" -> failed(r.code)
                   [] ~r.ok -> failed("SyntaxError")
                   [] ~validate(agent, r.val).valid -> failed("Invalid configuration")
                   [] OTHER -> [ok |-> TRUE, err |-> <<>>, config |-> r.val]

\* A write that does not validate.
writeUnchecked(fs, agent, config, scope) ==
    LET w == WriteFile(fs, getAgentConfigPath(agent, scope), StringifyPretty(config))
    IN  IF w.ok THEN Resolved(w.fs)
        ELSE Rejected(fs, <<"Failed to write configuration", "EACCES">>)

\* write(config, scope): validate, then ensureDir and writeFile at getConfigPath(scope)
write(fs, agent, config, scope) ==
    IF ~validate(agent, config).valid
    THEN Rejected(fs, <<"Failed to write configuration", "Invalid configuration">>)
    ELSE LET w == WriteFile(fs, getAgentConfigPath(agent, scope), StringifyPretty(config))
         IN  IF w.ok THEN Resolved(w.fs)
             ELSE Rejected(fs, <<"Failed to write configuration", "EACCES">>)

\* The '-y @modelcontextprotocol/server-<id>' arguments a server gets by default
DefaultArgs(serverId) == <<"-y", "@modelcontextprotocol/server-" \o serverId>>

\* v || dflt, of a key of serverConfig that holds a string
OrElse(obj, key, dflt) == IF Truthy(Get(obj, key)) THEN obj[key] ELSE dflt

\* v || dflt, of a key of serverConfig that holds an array or an object
\* (truthy whenever it is there)
OrElseObj(obj, key, dflt) == IF key \in DOMAIN obj THEN obj[key] ELSE dflt

\* transformServerConfig(serverId, serverConfig, transport) of the two adapters
transformServerConfig(agent, serverId, serverConfig, transport) ==
    LET stdio == [command |-> OrElse(serverConfig, "command", "npx"),
                  args |-> OrElseObj(serverConfig, "args", DefaultArgs(serverId)),
                  env |-> OrElseObj(serverConfig, "env", {})]
    IN  IF agent = "claude"
        THEN IF transport = "http" /\ "url" \in DOMAIN serverConfig
             THEN [serverUrl |-> serverConfig.url]
             ELSE stdio
        ELSE IF transport \in {"http", "sse"} /\ "url" \in DOMAIN serverConfig
             THEN [type |-> transport, url |-> serverConfig.url, disabled |-> FALSE]
             ELSE [type |-> "local", command |-> stdio.command, args |-> stdio.args,
                   env |-> stdio.env, disabled |-> FALSE]

\* An addServer that keeps the fields of the entry it replaces.
addServerKeepingFields(fs, agent, serverId, serverConfig, scope) ==
    LET r == read(fs, agent, scope)
        servers == extractServers(agent, r.config)
        transport == OrElse(serverConfig, "transport", "stdio")
        transformedConfig == transformServerConfig(agent, serverId, serverConfig, transport)
        old == IF serverId \in DOMAIN servers THEN servers[serverId] ELSE EmptyObj
        kept == [k \in DOMAIN old \cup DOMAIN transformedConfig |->
                    IF k \in DOMAIN transformedConfig THEN transformedConfig[k] ELSE old[k]]
        newConfig == createConfigWithServers(agent, Put(servers, serverId, kept))
        w == write(fs, agent, newConfig, scope)
    IN  IF ~r.ok THEN Rejected(fs, <<"Failed to add server">> \o r.err)
        ELSE IF ~w.ok THEN Rejected(fs, <<"Failed to add server">> \o w.err)
        ELSE w

\* addServer(serverId, serverConfig, scope)
addServer(fs, agent, serverId, serverConfig, scope) ==
    LET r == read(fs, agent, scope)
        servers == extractServers(agent, r.config)
        transport == OrElse(serverConfig, "transport", "stdio")
        transformedConfig == transformServerConfig(agent, serverId, serverConfig, transport)
        newConfig == createConfigWithServers(agent, Put(servers, serverId, transformedConfig))
        w == write(fs, agent, newConfig, scope)
    IN  IF ~r.ok THEN Rejected(fs, <<"Failed to add server">> \o r.err)
        ELSE IF ~w.ok THEN Rejected(fs, <<"Failed to add server">> \o w.err)
        ELSE w

\* updateServer(serverId, serverConfig, scope): 'for now, update is the same as add'
updateServer(fs, agent, serverId, serverConfig, scope) ==
    addServer(fs, agent, serverId, serverConfig, scope)

\* A removeServer that writes whether or not the server is stored.
removeServerAlwaysWriting(fs, agent, serverId, scope) ==
    LET r == read(fs, agent, scope)
        servers == extractServers(agent, r.config)
        newConfig == createConfigWithServers(agent, Del(servers, serverId))
        w == write(fs, agent, newConfig, scope)
    IN  IF ~r.ok THEN Rejected(fs, <<"Failed to remove server">> \o r.err)
        ELSE IF ~w.ok THEN Rejected(fs, <<"Failed to remove server">> \o w.err)
        ELSE w

\* removeServer(serverId, scope)
removeServer(fs, agent, serverId, scope) ==
    LET r == read(fs, agent, scope)
        servers == extractServers(agent, r.config)
        newConfig == createConfigWithServers(agent, Del(servers, serverId))
        w == write(fs, agent, newConfig, scope)
    IN  IF ~r.ok THEN Rejected(fs, <<"Failed to remove server">> \o r.err)
        ELSE IF serverId \notin DOMAIN servers THEN Resolved(fs)
        ELSE IF ~w.ok THEN Rejected(fs, <<"Failed to remove server">> \o w.err)
        ELSE w

\* A merge in which the source entry always wins.
MergeServersSourceFirst(currentServers, sourceServers, overwrite) ==
    [id \in DOMAIN currentServers \cup DOMAIN sourceServers |->
        IF id \in DOMAIN sourceServers THEN sourceServers[id] ELSE currentServers[id]]

\* The merged servers of mergeConfig: the current ones, and each source entry
\* whose id is not among them, or every source entry when overwrite is set
MergeServers(currentServers, sourceServers, overwrite) ==
    [id \in DOMAIN currentServers \cup DOMAIN sourceServers |->
        IF id \in DOMAIN sourceServers /\ (id \notin DOMAIN currentServers \/ overwrite)
        THEN sourceServers[id]
        ELSE currentServers[id]]

\* mergeConfig(sourceConfig, scope, overwrite)
mergeConfig(fs, agent, sourceConfig, scope, overwrite) ==
    LET r == read(fs, agent, scope)
        mergedServers == MergeServers(extractServers(agent, r.config),
                                      extractServers(agent, sourceConfig), overwrite)
        w == write(fs, agent, createConfigWithServers(agent, mergedServers), scope)
    IN  IF ~r.ok THEN Rejected(fs, <<"Failed to merge configuration">> \o r.err)
        ELSE IF ~w.ok THEN Rejected(fs, <<"Failed to merge configuration">> \o w.err)
        ELSE w

\* An import that merges whatever merge says.
importConfigAlwaysMerging(fs, agent, config, scope, merge) ==
    mergeConfig(fs, agent, config, scope, FALSE)

\* importConfig(config, scope, merge)
importConfig(fs, agent, config, scope, merge) ==
    IF merge THEN mergeConfig(fs, agent, config, scope, FALSE)
    ELSE write(fs, agent, config, scope)

\* VSCodeAdapter.toggleServer(serverId, enabled, scope)
toggleServer(fs, agent, serverId, enabled, scope) ==
    LET r == read(fs, agent, scope)
        servers == extractServers(agent, r.config)
        toggled == Put(servers, serverId, Put(servers[serverId], "disabled", ~enabled))
        w == write(fs, agent, createConfigWithServers(agent, toggled), scope)
    IN  IF ~r.ok THEN Rejected(fs, <<"Failed to toggle server">> \o r.err)
        ELSE IF serverId \notin DOMAIN servers
             THEN Rejected(fs, <<"Failed to toggle server", "Server not found">>)
        ELSE IF ~w.ok THEN Rejected(fs, <<"Failed to toggle server">> \o w.err)
        ELSE w

(***************************************************************************)
(* JSON.stringify and the checksum (MCPBoxConfigManager.calculateChecksum) *)
(***************************************************************************)

\* The strings of the model; a string's character data is its place here.
Strings ==
    <<"mcpServers", "servers", "theme", "invalidField", "type", "command", "args",
      "env", "serverUrl", "url", "disabled", "github", "files", "node", "npx",
      "python", "server.js", "app.py", "-y", "@modelcontextprotocol/server-github",
      "@modelcontextprotocol/server-files", "NODE_ENV", "production", "API_KEY",
      "secret", "${API_KEY}", "https://example.com/mcp", "https://example.com/sse",
      "not a url", "local", "http", "sse", "dark", "value", "", " ", "true", "false",
      NumVal>>

\* The code that stands for the characters of each string.
CodeOf ==
    [s \in {Strings[i] : i \in DOMAIN Strings} |->
        CHOOSE i \in DOMAIN Strings : Strings[i] = s]

Code(s) == CodeOf[s]

\* The members of a set of strings as a sequence, in the order of their codes.
RECURSIVE InOrder(_)
InOrder(S) ==
    IF S = {} THEN <<>>
    ELSE LET s == CHOOSE x \in S : \A y \in S : Code(x) <= Code(y)
         IN  <<s>> \o InOrder(S \ {s})

\* The codes of a sequence of strings.
RECURSIVE Codes(_)
Codes(ss) == IF ss = <<>> THEN <<>> ELSE <<Code(Head(ss))>> \o Codes(Tail(ss))

\* JSON.stringify of the value under key of a server entry.
FieldText(key, v) ==
    CASE key = "args" -> Codes(v)
      [] key = "env" ->
           LET keys == InOrder({kv[1] : kv \in v})
               val(k) == (CHOOSE kv \in v : kv[1] = k)[2]
           IN  Codes([i \in DOMAIN keys |-> keys[i]]) \o
               Codes([i \in DOMAIN keys |-> val(keys[i])])
      [] key = "disabled" -> <<Code(IF v THEN "true" ELSE "false")>>
      [] OTHER -> <<Code(v)>>

\* JSON.stringify of the keys of a server entry, one after the other.
RECURSIVE EntryText(_, _)
EntryText(e, keys) ==
    IF keys = <<>> THEN <<>>
    ELSE <<Code(Head(keys))>> \o FieldText(Head(keys), e[Head(keys)]) \o
         EntryText(e, Tail(keys))

\* JSON.stringify of the entries of a servers object, one after the other.
RECURSIVE ServersText(_, _)
ServersText(servers, ids) ==
    IF ids = <<>> THEN <<>>
    ELSE LET e == servers[Head(ids)]
         IN  <<Code(Head(ids))>> \o EntryText(e, InOrder(DOMAIN e)) \o
             ServersText(servers, Tail(ids))

\* JSON.stringify of the top-level keys of a configuration, one after the other.
RECURSIVE ConfigText(_, _)
ConfigText(config, keys) ==
    IF keys = <<>> THEN <<>>
    ELSE LET v == config[Head(keys)]
         IN  <<Code(Head(keys))>> \o
             (IF Head(keys) \in {"mcpServers", "servers"}
              THEN ServersText(v, InOrder(DOMAIN v))
              ELSE <<Code(v)>>) \o
             ConfigText(config, Tail(keys))

\* JSON.stringify(config): the text as a sequence of character codes
Stringify(config) == ConfigText(config, InOrder(DOMAIN config))

\* A 32-bit integer is kept as its two 16-bit halves <<high, low>> (of its
\* two's complement), so that no intermediate value leaves the range of the
\* checker's integers.
Half == 65536

\* ((hash << 5) - hash) + char, then `hash & hash` (ToInt32): 31 * hash + char
\* modulo 2^32
HashStep(hash, char) ==
    LET low == (hash[2] * 31) + char
        high == (hash[1] * 31) + (low \div Half)
    IN  <<high % Half, low % Half>>

\* The hash of calculateChecksum after the characters of content
RECURSIVE HashOf(_, _)
HashOf(content, hash) ==
    IF content = <<>> THEN hash
    ELSE HashOf(Tail(content), HashStep(hash, Head(content)))

\* Math.abs(hash) of the 32-bit signed integer hash
Abs32(hash) ==
    IF hash[1] < Half \div 2 THEN hash
    ELSE IF hash[2] = 0 THEN <<Half - hash[1], 0>>
    ELSE <<(Half - 1) - hash[1], Half - hash[2]>>

\* n.toString(16) of n >= 0: the hexadecimal digits
RECURSIVE Hex(_)
Hex(n) == IF n < 16 THEN <<n>> ELSE Hex(n \div 16) \o <<n % 16>>

\* The four hexadecimal digits of a low half
Hex4(n) == <<n \div 4096, (n \div 256) % 16, (n \div 16) % 16, n % 16>>

\* calculateChecksum(content): Math.abs(hash).toString(16)
calculateChecksum(content) ==
    LET h == Abs32(HashOf(content, <<0, 0>>))
    IN  IF h[1] = 0 THEN Hex(h[2]) ELSE Hex(h[1]) \o Hex4(h[2])

(***************************************************************************)
(* Backups (MCPBoxConfigManager)                                           *)
(***************************************************************************)

\* The largest value of the clock.
MaxTime == 2

\* `${agent}-${scope}-${timestamp}`
BackupId(agent, scope, t) == agent \o "-" \o scope \o "-" \o ToString(t)

\* The ids a backup can have.
AllBackupIds == {BackupId(a, s, t) : a \in Adapters, s \in Scopes, t \in 0..MaxTime}

\* createSafeFilename(input): the characters <>:"/\|?* and white space become
\* '_'. A backup id has none of them (its timestamp's ':' and '.' are '-' already).
createSafeFilename(input) == input

\* path.join(getBackupDir(), `${safeBackupId}.json`)
BackupPath(backupId) == "~/.local/share/mcp-box/backups/" \o createSafeFilename(backupId) \o ".json"

\* path.basename(backupPath, '.json')
Basename(backupPath) ==
    IF \E id \in AllBackupIds : BackupPath(id) = backupPath
    THEN CHOOSE id \in AllBackupIds : BackupPath(id) = backupPath
    ELSE "no-such-backup"

\* No file at a backup path.
NoBackup == [exists |-> FALSE, metadata |-> NoDoc, config |-> NoDoc]

\* loadAgentConfig(agent, scope): JSON.parse of the file findConfigFile finds,
\* with no validation and no special case for an empty file
loadAgentConfig(fs, agent, scope) ==
    LET configPath == findConfigFile(fs, agent, scope)
    IN  IF configPath = ""
        THEN [ok |-> FALSE, err |-> <<"Configuration file not found">>, config |-> NoDoc]
        ELSE LET r == ReadJson(fs, configPath)
             IN  IF r.ok THEN [ok |-> TRUE, err |-> <<>>, config |-> r.val]
                 ELSE [ok |-> FALSE, err |-> <<"Failed to load configuration">>, config |-> NoDoc]

\* saveAgentConfig(agent, config, scope): writeFile at getAgentConfigPath, unvalidated
saveAgentConfig(fs, agent, config, scope) ==
    LET w == WriteFile(fs, getAgentConfigPath(agent, scope), StringifyPretty(config))
    IN  IF w.ok THEN Resolved(w.fs)
        ELSE Rejected(fs, <<"Failed to save configuration">>)

\* createBackup(agent, scope) at time t: the BackupResult and the backup directory after
createBackup(fs, bk, t, agent, scope) ==
    LET configPath == findConfigFile(fs, agent, scope)
        loaded == loadAgentConfig(fs, agent, scope)
        backupId == BackupId(agent, scope, t)
        metadata == [id |-> backupId, agent |-> agent, scope |-> scope,
                     configPath |-> configPath,
                     checksum |-> calculateChecksum(Stringify(loaded.config))]
        failed(err) == [success |-> FALSE, backupId |-> "", filePath |-> "",
                        checksum |-> <<>>, error |-> err, bk |-> bk]
    IN  IF configPath = "" THEN failed(<<"Configuration file not found">>)
        ELSE IF ~loaded.ok THEN failed(loaded.err)
        ELSE [success |-> TRUE, backupId |-> backupId, filePath |-> BackupPath(backupId),
              checksum |-> metadata.checksum, error |-> <<>>,
              bk |-> [bk EXCEPT ![backupId] =
                        [exists |-> TRUE, metadata |-> metadata, config |-> loaded.config]]]

\* A restoreBackup that does not verify the checksum.
restoreBackupUnverified(fs, bk, backupId) ==
    LET b == bk[backupId]
        saved == saveAgentConfig(fs, b.metadata.agent, b.config, b.metadata.scope)
        failed(err) == [success |-> FALSE, backupId |-> backupId, configPath |-> "",
                        error |-> err, changesDetected |-> FALSE, fs |-> fs]
    IN  IF backupId \notin DOMAIN bk \/ ~bk[backupId].exists THEN failed(<<"Backup not found">>)
        ELSE IF ~saved.ok THEN failed(saved.err)
        ELSE [success |-> TRUE, backupId |-> backupId, configPath |-> b.metadata.configPath,
              error |-> <<>>, changesDetected |-> TRUE, fs |-> saved.fs]

\* A restoreBackup that reports success and writes nothing.
restoreBackupWritingNothing(fs, bk, backupId) ==
    LET b == bk[backupId]
        failed(err) == [success |-> FALSE, backupId |-> backupId, configPath |-> "",
                        error |-> err, changesDetected |-> FALSE, fs |-> fs]
    IN  IF backupId \notin DOMAIN bk \/ ~bk[backupId].exists THEN failed(<<"Backup not found">>)
        ELSE IF calculateChecksum(Stringify(b.config)) # b.metadata.checksum
        THEN failed(<<"Backup integrity check failed">>)
        ELSE [success |-> TRUE, backupId |-> backupId, configPath |-> b.metadata.configPath,
              error |-> <<>>, changesDetected |-> FALSE, fs |-> fs]

\* restoreBackup(backupId): the RestoreResult and the disk after
restoreBackup(fs, bk, backupId) ==
    LET safeBackupId == createSafeFilename(backupId)
        b == bk[safeBackupId]
        currentChecksum == calculateChecksum(Stringify(b.config))
        current == loadAgentConfig(fs, b.metadata.agent, b.metadata.scope)
        changesDetected == IF current.ok
                           THEN Stringify(current.config) # Stringify(b.config)
                           ELSE TRUE
        saved == saveAgentConfig(fs, b.metadata.agent, b.config, b.metadata.scope)
        failed(err) == [success |-> FALSE, backupId |-> backupId, configPath |-> "",
                        error |-> err, changesDetected |-> FALSE, fs |-> fs]
    IN  IF safeBackupId \notin DOMAIN bk \/ ~bk[safeBackupId].exists
        THEN failed(<<"Backup not found">>)
        ELSE IF currentChecksum # b.metadata.checksum
        THEN failed(<<"Backup integrity check failed">>)
        ELSE IF ~saved.ok THEN failed(saved.err)
        ELSE [success |-> TRUE, backupId |-> backupId, configPath |-> b.metadata.configPath,
              error |-> <<>>, changesDetected |-> changesDetected, fs |-> saved.fs]

\* BaseAgentAdapter.backup(scope) at time t: the backup path, or the rejection
backup(fs, bk, t, agent, scope) ==
    LET backupResult == createBackup(fs, bk, t, agent, scope)
    IN  IF ~backupResult.success
        THEN [ok |-> FALSE, err |-> <<"Failed to create backup">> \o backupResult.error,
              path |-> "", bk |-> bk]
        ELSE [ok |-> TRUE, err |-> <<>>, path |-> backupResult.filePath,
              bk |-> backupResult.bk]

\* BaseAgentAdapter.restore(backupPath, scope): scope is not used
restore(fs, bk, backupPath, scope) ==
    LET restoreResult == restoreBackup(fs, bk, Basename(backupPath))
    IN  IF ~restoreResult.success
        THEN Rejected(fs, <<"Failed to restore backup">> \o restoreResult.error)
        ELSE Resolved(restoreResult.fs)

(***************************************************************************)
(* Text: a string of the registry is the sequence of its characters        *)
(***************************************************************************)

\* The letters, in the order of the alphabet.
UpperCase == <<"A", "B", "C", "D", "E", "F", "G", "H", "I", "J", "K", "L", "M", "N", "O", "P", "Q", "R", "S", "T", "U", "V", "W", "X", "Y", "Z">>
LowerCase == <<"a", "b", "c", "d", "e", "f", "g", "h", "i", "j", "k", "l", "m", "n", "o", "p", "q", "r", "s", "t", "u", "v", "w", "x", "y", "z">>

\* The digits, in the order of their values less one.
Digits == <<"0", "1", "2", "3", "4", "5", "6", "7", "8", "9">>

\* The lower-case letter of each upper-case letter.
LowerOf ==
    [c \in {UpperCase[i] : i \in DOMAIN UpperCase} |->
        LowerCase[CHOOSE i \in DOMAIN UpperCase : UpperCase[i] = c]]

\* c.toLowerCase(), of a character
LowerChar(c) == IF c \in DOMAIN LowerOf THEN LowerOf[c] ELSE c

\* s.toLowerCase()
toLowerCase(s) == [i \in DOMAIN s |-> LowerChar(s[i])]

\* text.includes(part)
includes(text, part) ==
    \E i \in 0..(Len(text) - Len(part)) : SubSeq(text, i + 1, i + Len(part)) = part

\* s.endsWith(c), of a character c
endsWith(s, c) == s # <<>> /\ s[Len(s)] = c

\* s.slice(0, -1)
DropLast(s) == SubSeq(s, 1, Len(s) - 1)

\* White space.
IsSpace(c) == c = " "

\* s.trim()
RECURSIVE trim(_)
trim(s) ==
    IF s = <<>> THEN s
    ELSE IF IsSpace(Head(s)) THEN trim(Tail(s))
    ELSE IF IsSpace(s[Len(s)]) THEN trim(DropLast(s))
    ELSE s

\* s.replace(/[,\s]/g, '')
RECURSIVE StripSeparators(_)
StripSeparators(s) ==
    IF s = <<>> THEN s
    ELSE IF Head(s) = "," \/ IsSpace(Head(s)) THEN StripSeparators(Tail(s))
    ELSE <<Head(s)>> \o StripSeparators(Tail(s))

\* The value of each digit.
ValueOf ==
    [c \in {Digits[i] : i \in DOMAIN Digits} |->
        (CHOOSE i \in DOMAIN Digits : Digits[i] = c) - 1]

DigitValue(c) == ValueOf[c]

IsDigit(c) == c \in DOMAIN ValueOf

\* The value of the digits s starts with, after the digits of value n.
RECURSIVE LeadingDigits(_, _)
LeadingDigits(s, n) ==
    IF s = <<>> \/ ~IsDigit(Head(s)) THEN n
    ELSE LeadingDigits(Tail(s), (10 * n) + DigitValue(Head(s)))

\* parseInt(s), of a string with no leading white space and no 0x prefix: <<n>>
\* for the number n its sign and leading decimal digits spell, <<>> for NaN
\* when it has none
parseInt(s) ==
    LET signed == s # <<>> /\ Head(s) \in {"+", "-"}
        digits == IF signed THEN Tail(s) ELSE s
    IN  IF digits = <<>> \/ ~IsDigit(Head(digits)) THEN <<>>
        ELSE IF signed /\ Head(s) = "-" THEN <<0 - LeadingDigits(digits, 0)>>
        ELSE <<LeadingDigits(digits, 0)>>

\* n || 0, of what parseInt returns
OrZero(n) == IF n = <<>> THEN 0 ELSE n[1]

\* parseDownloads(downloadsStr)
parseDownloads(downloadsStr) ==
    LET str == StripSeparators(toLowerCase(downloadsStr))
    IN  IF downloadsStr = <<>> \/ downloadsStr = <<"N", "/", "A">> THEN 0
        ELSE IF endsWith(str, "+") THEN OrZero(parseInt(DropLast(str)))
        ELSE IF endsWith(str, "k") THEN OrZero(parseInt(DropLast(str))) * 1000
        ELSE IF endsWith(str, "m") THEN OrZero(parseInt(DropLast(str))) * 1000000
        ELSE OrZero(parseInt(str))

(***************************************************************************)
(* The registry (MCPRegistryManager)                                       *)
(***************************************************************************)

\* this.registry = null
NullRegistry == [null |-> TRUE]

\* this.lastLoaded = null
NoTime == -1

\* The registry file: it cannot be read, or it holds the JSON of a registry, or
\* it holds text that JSON.parse rejects.
NoRegistryFile == [readable |-> FALSE, json |-> FALSE, servers |-> <<>>]
RegistryFile(servers) == [readable |-> TRUE, json |-> TRUE, servers |-> servers]
InvalidRegistryFile == [readable |-> TRUE, json |-> FALSE, servers |-> <<>>]

\* 5 * 60 * 1000: the age in milliseconds above which the registry is loaded again
StaleAfter == 5 * 60 * 1000

\* loadRegistry(): the manager after, or the rejection
loadRegistry(mgr, file, t) ==
    IF file.readable /\ file.json
    THEN [ok |-> TRUE, err |-> <<>>,
          mgr |-> [registry |-> [servers |-> file.servers], lastLoaded |-> t]]
    ELSE [ok |-> FALSE, err |-> <<"Failed to load MCP registry">>, mgr |-> mgr]

\* The test of ensureLoaded: nothing is loaded, or it was more than StaleAfter ago
IsStale(mgr, t) ==
    mgr.registry = NullRegistry \/ mgr.lastLoaded = NoTime
       \/ (t - mgr.lastLoaded) > StaleAfter

\* ensureLoaded() at time t
ensureLoaded(mgr, file, t) ==
    IF IsStale(mgr, t)
    THEN loadRegistry(mgr, file, t)
    ELSE [ok |-> TRUE, err |-> <<>>, mgr |-> mgr]

\* filters.key, or dflt when it is undefined (a destructuring default)
Default(obj, key, dflt) == IF key \in DOMAIN obj THEN obj[key] ELSE dflt

\* list.includes(x)
InList(x, list) == \E i \in DOMAIN list : list[i] = x

\* A test that asks for every wanted value.
EveryIncluded(wanted, had) == \A i \in DOMAIN wanted : InList(wanted[i], had)

\* wanted.some(w => had.includes(w))
SomeIncluded(wanted, had) == \E i \in DOMAIN wanted : InList(wanted[i], had)

\* The callback of this.registry.servers.filter in searchServers: the server
\* is kept unless one of the tests, made one after the other, returns false
FilterServer(server, filters) ==
    LET classification == Default(filters, "classification", <<>>)
        transportTypes == Default(filters, "transportTypes", <<>>)
        supportedPlatforms == Default(filters, "supportedPlatforms", <<>>)
        tags == Default(filters, "tags", <<>>)
    IN  IF Len(classification) > 0 /\ ~InList(server.classification, classification)
        THEN FALSE
        ELSE IF Len(transportTypes) > 0 /\ ~SomeIncluded(transportTypes, server.transportTypes)
        THEN FALSE
        ELSE IF Len(supportedPlatforms) > 0
                  /\ ~SomeIncluded(supportedPlatforms, server.supportedPlatforms)
        THEN FALSE
        ELSE IF Len(tags) > 0 /\ ~SomeIncluded(tags, server.tags)
        THEN FALSE
        ELSE IF "maintainer" \in DOMAIN filters /\ filters.maintainer # <<>>
                  /\ ~includes(toLowerCase(server.maintainer), toLowerCase(filters.maintainer))
        THEN FALSE
        ELSE IF Truthy(Get(filters, "category")) /\ Get(server, "category") # filters.category
        THEN FALSE
        ELSE IF Truthy(Get(filters, "license")) /\ Get(server, "license") # filters.license
        THEN FALSE
        ELSE IF "dockerSupport" \in DOMAIN filters
                  /\ server.dockerSupport # filters.dockerSupport
        THEN FALSE
        ELSE IF "hasNpmPackage" \in DOMAIN filters
                  /\ Truthy(Get(server, "npmPackage")) # filters.hasNpmPackage
        THEN FALSE
        ELSE IF "minDownloads" \in DOMAIN filters
                  /\ parseDownloads(server.estWeeklyDownloads) < filters.minDownloads
        THEN FALSE
        ELSE TRUE

\* servers.filter(callback)
RECURSIVE FilterServers(_, _)
FilterServers(servers, filters) ==
    IF servers = <<>> THEN <<>>
    ELSE (IF FilterServer(Head(servers), filters) THEN <<Head(servers)>> ELSE <<>>)
         \o FilterServers(Tail(servers), filters)

\* tags.some(tag => tag.toLowerCase().includes(queryLower))
SomeTagIncludes(tags, queryLower) ==
    \E i \in DOMAIN tags : includes(toLowerCase(tags[i]), queryLower)

\* fuzzyMatch(pattern, text) times pattern.length: the loop from character i
\* of text, and the score when every character of pattern was met (else 0)
RECURSIVE FuzzyLoop(_, _, _, _, _, _)
FuzzyLoop(pattern, text, i, patternIdx, score, consecutiveMatches) ==
    IF ~(i <= Len(text) /\ patternIdx <= Len(pattern))
    THEN IF patternIdx = Len(pattern) + 1 THEN score ELSE 0
    ELSE IF text[i] = pattern[patternIdx]
         THEN FuzzyLoop(pattern, text, i + 1, patternIdx + 1,
                        score + consecutiveMatches + 1, consecutiveMatches + 1)
         ELSE FuzzyLoop(pattern, text, i + 1, patternIdx, score, 0)

fuzzyMatch(pattern, text) ==
    IF Len(pattern) = 0 \/ Len(text) = 0 THEN 0
    ELSE FuzzyLoop(pattern, text, 1, 1, 0, 0)

\* A score is the fraction num / den; den is 2 * query.length for a query,
\* so that fuzzyMatch(...) and fuzzyMatch(...) * 0.5 are whole numerators.
Score(num, den) == [num |-> num, den |-> den]

\* calculateRelevanceScore(server, query, fuzzy)
calculateRelevanceScoreAlwaysFuzzy(server, query, fuzzy) ==
    LET queryLower == toLowerCase(query)
        den == 2 * Len(query)
        exact == (IF includes(toLowerCase(server.name), queryLower) THEN 10 ELSE 0)
                 + (IF includes(toLowerCase(server.title), queryLower) THEN 8 ELSE 0)
                 + (IF includes(toLowerCase(server.description), queryLower) THEN 5 ELSE 0)
                 + (IF includes(toLowerCase(server.maintainer), queryLower) THEN 3 ELSE 0)
                 + (IF SomeTagIncludes(server.tags, queryLower) THEN 4 ELSE 0)
        fuzzyScore == IF fuzzy
                      THEN (2 * fuzzyMatch(queryLower, toLowerCase(server.name)))
                           + fuzzyMatch(queryLower, toLowerCase(server.description))
                      ELSE 0
        downloads == parseDownloads(server.estWeeklyDownloads)
        popular == IF downloads > 10000 THEN 2 ELSE IF downloads > 1000 THEN 1 ELSE 0
        official == IF server.classification = "official" THEN 2 ELSE 0
    IN  Score((exact * den) + fuzzyScore + ((popular + official) * den), den)

calculateRelevanceScore(server, query, fuzzy) ==
    LET queryLower == toLowerCase(query)
        den == 2 * Len(query)
        exact == (IF includes(toLowerCase(server.name), queryLower) THEN 10 ELSE 0)
                 + (IF includes(toLowerCase(server.title), queryLower) THEN 8 ELSE 0)
                 + (IF includes(toLowerCase(server.description), queryLower) THEN 5 ELSE 0)
                 + (IF includes(toLowerCase(server.maintainer), queryLower) THEN 3 ELSE 0)
                 + (IF SomeTagIncludes(server.tags, queryLower) THEN 4 ELSE 0)
        fuzzyScore == IF fuzzy /\ exact = 0
                      THEN (2 * fuzzyMatch(queryLower, toLowerCase(server.name)))
                           + fuzzyMatch(queryLower, toLowerCase(server.description))
                      ELSE 0
        downloads == parseDownloads(server.estWeeklyDownloads)
        popular == IF downloads > 10000 THEN 2 ELSE IF downloads > 1000 THEN 1 ELSE 0
        official == IF server.classification = "official" THEN 2 ELSE 0
    IN  Score((exact * den) + fuzzyScore + ((popular + official) * den), den)

\* getMatchedFields(server, query)
getMatchedFields(server, query) ==
    LET queryLower == toLowerCase(query)
    IN  (IF includes(toLowerCase(server.name), queryLower) THEN <<"name">> ELSE <<>>)
        \o (IF includes(toLowerCase(server.title), queryLower) THEN <<"title">> ELSE <<>>)
        \o (IF includes(toLowerCase(server.description), queryLower)
            THEN <<"description">> ELSE <<>>)
        \o (IF includes(toLowerCase(server.maintainer), queryLower)
            THEN <<"maintainer">> ELSE <<>>)
        \o (IF SomeTagIncludes(server.tags, queryLower) THEN <<"tags">> ELSE <<>>)

\* The place of each lower-case letter in the alphabet.
PlaceOf ==
    [c \in {LowerCase[i] : i \in DOMAIN LowerCase} |->
        CHOOSE i \in DOMAIN LowerCase : LowerCase[i] = c]

\* The place of a character in the order localeCompare gives lower-case names:
\* the letters in the order of the alphabet, after every other character.
CharRank(c) == IF c \in DOMAIN PlaceOf THEN PlaceOf[c] ELSE 0

\* a.localeCompare(b), of lower-case names: negative, zero or positive
RECURSIVE localeCompare(_, _)
localeCompare(a, b) ==
    IF a = <<>> /\ b = <<>> THEN 0
    ELSE IF a = <<>> THEN -1
    ELSE IF b = <<>> THEN 1
    ELSE IF CharRank(Head(a)) # CharRank(Head(b)) THEN CharRank(Head(a)) - CharRank(Head(b))
    ELSE localeCompare(Tail(a), Tail(b))

\* new Date(s).getTime(), of a date 'YYYY-MM': <<n>> with n the months since
\* year 0, which orders dates as their milliseconds do; <<>> (NaN) for any
\* other string
DateTime(s) ==
    IF Len(s) = 7 /\ s[5] = "-" /\ \A i \in {1, 2, 3, 4, 6, 7} : IsDigit(s[i])
          /\ LeadingDigits(SubSeq(s, 6, 7), 0) \in 1..12
    THEN <<(12 * LeadingDigits(SubSeq(s, 1, 4), 0)) + LeadingDigits(SubSeq(s, 6, 7), 0)>>
    ELSE <<>>

\* x - y of two times; 0 when one is NaN, as sort takes a NaN from its callback
TimeDifference(x, y) == IF x = <<>> \/ y = <<>> THEN 0 ELSE x[1] - y[1]

\* A callback that sorts from the highest whatever the direction asked for.
CompareResultsDescending(a, b, sortBy, sortOrder) ==
    CASE sortBy = "relevance" -> (b.score.num * a.score.den) - (a.score.num * b.score.den)
      [] sortBy = "downloads" ->
           parseDownloads(b.server.estWeeklyDownloads)
              - parseDownloads(a.server.estWeeklyDownloads)
      [] sortBy = "name" ->
           localeCompare(toLowerCase(b.server.name), toLowerCase(a.server.name))
      [] sortBy = "updated" ->
           TimeDifference(DateTime(b.server.lastUpdated), DateTime(a.server.lastUpdated))
      [] OTHER -> 0

\* The callback of results.sort in searchServers: negative when a goes first
CompareResults(a, b, sortBy, sortOrder) ==
    CASE sortBy = "relevance" ->
           IF sortOrder = "desc"
           THEN (b.score.num * a.score.den) - (a.score.num * b.score.den)
           ELSE (a.score.num * b.score.den) - (b.score.num * a.score.den)
      [] sortBy = "downloads" ->
           LET aDownloads == parseDownloads(a.server.estWeeklyDownloads)
               bDownloads == parseDownloads(b.server.estWeeklyDownloads)
           IN  IF sortOrder = "desc" THEN bDownloads - aDownloads ELSE aDownloads - bDownloads
      [] sortBy = "name" ->
           LET aName == toLowerCase(a.server.name)
               bName == toLowerCase(b.server.name)
           IN  IF sortOrder = "desc" THEN localeCompare(bName, aName)
               ELSE localeCompare(aName, bName)
      [] sortBy = "updated" ->
           LET aDate == DateTime(a.server.lastUpdated)
               bDate == DateTime(b.server.lastUpdated)
           IN  IF sortOrder = "desc" THEN TimeDifference(bDate, aDate)
               ELSE TimeDifference(aDate, bDate)
      [] OTHER -> 0

\* x put into the sorted sequence before the first element that goes after it
InsertResult(sorted, x, sortBy, sortOrder) ==
    LET later == {i \in DOMAIN sorted : CompareResults(x, sorted[i], sortBy, sortOrder) < 0}
        at == IF later = {} THEN Len(sorted) + 1
              ELSE CHOOSE i \in later : \A j \in later : i <= j
    IN  SubSeq(sorted, 1, at - 1) \o <<x>> \o SubSeq(sorted, at, Len(sorted))

\* results.sort(callback): the sort is stable
RECURSIVE SortResults(_, _, _)
SortResults(results, sortBy, sortOrder) ==
    IF results = <<>> THEN <<>>
    ELSE InsertResult(SortResults(DropLast(results), sortBy, sortOrder),
                      results[Len(results)], sortBy, sortOrder)

\* filteredServers.map(server => ({ server, score, matchedFields })) for a query
RECURSIVE ScoreServers(_, _, _)
ScoreServers(servers, query, fuzzy) ==
    IF servers = <<>> THEN <<>>
    ELSE <<[server |-> Head(servers),
            score |-> calculateRelevanceScore(Head(servers), query, fuzzy),
            matchedFields |-> getMatchedFields(Head(servers), query)]>>
         \o ScoreServers(Tail(servers), query, fuzzy)

\* A slice that starts at the first result whatever the offset.
SliceFromStart(results, offset, limit) ==
    SubSeq(results, 1, IF limit < Len(results) THEN limit ELSE Len(results))

\* results.slice(offset, offset + limit), of an offset and a limit >= 0
Slice(results, offset, limit) ==
    SubSeq(results, offset + 1,
           IF offset + limit < Len(results) THEN offset + limit ELSE Len(results))

\* No response: the call rejected.
NoResponse == [none |-> TRUE]

\* searchServers(filters, options) at time t on the manager mgr: the response
\* and the manager after, or the rejection
searchServers(mgr, file, t, filters, options) ==
    LET loaded == ensureLoaded(mgr, file, t)
        query == Default(filters, "query", <<>>)
        fuzzy == Default(options, "fuzzy", TRUE)
        limit == Default(options, "limit", 50)
        offset == Default(options, "offset", 0)
        sortBy == Default(options, "sortBy", "relevance")
        sortOrder == Default(options, "sortOrder", "desc")
        filteredServers == FilterServers(loaded.mgr.registry.servers, filters)
        matched(result) == result.score.num > 0
        results == IF trim(query) # <<>>
                   THEN SelectSeq(ScoreServers(filteredServers, query, fuzzy), matched)
                   ELSE [i \in DOMAIN filteredServers |->
                            [server |-> filteredServers[i], score |-> Score(1, 1),
                             matchedFields |-> <<>>]]
        sorted == SortResults(results, sortBy, sortOrder)
        total == Len(sorted)
    IN  IF ~loaded.ok
        THEN [ok |-> FALSE, err |-> loaded.err, mgr |-> mgr, response |-> NoResponse]
        ELSE IF loaded.mgr.registry = NullRegistry
        THEN [ok |-> FALSE, err |-> <<"Registry not loaded">>, mgr |-> loaded.mgr,
              response |-> NoResponse]
        ELSE [ok |-> TRUE, err |-> <<>>, mgr |-> loaded.mgr,
              response |-> [results |-> Slice(sorted, offset, limit),
                            total |-> total,
                            hasMore |-> offset + limit < total,
                            filters |-> filters,
                            query |-> trim(query)]]

(***************************************************************************)
(* The inputs of the model                                                 *)
(***************************************************************************)

\* The server ids calls are made with.
ServerIds == {"github", "files"}

\* The serverConfig arguments of addServer and updateServer.
ServerConfigs ==
    {[command |-> "node", args |-> <<"server.js">>, env |-> {<<"NODE_ENV", "production">>}],
     [transport |-> "http", url |-> "https://example.com/mcp"],
     [transport |-> "http", url |-> "not a url"]}

\* Server entries as found in configuration files and in imported configurations.
PythonEntry(agent) ==
    IF agent = "claude"
    THEN [command |-> "python", args |-> <<"app.py">>, env |-> {<<"API_KEY", "secret">>}]
    ELSE [type |-> "local", command |-> "python", args |-> <<"app.py">>,
          env |-> {<<"API_KEY", "secret">>}, disabled |-> TRUE]

HttpEntry(agent) ==
    IF agent = "claude"
    THEN [serverUrl |-> "https://example.com/mcp"]
    ELSE [type |-> "http", url |-> "https://example.com/mcp"]

BadUrlEntry(agent) ==
    IF agent = "claude"
    THEN [serverUrl |-> "not a url"]
    ELSE [type |-> "sse", url |-> "not a url"]

BadTypeEntry(agent) ==
    IF agent = "claude" THEN [command |-> NumVal] ELSE [type |-> "local", command |-> NumVal]

\* The valid configurations a file or an argument may hold.
ValidConfigs(agent) ==
    {createConfigWithServers(agent, EmptyObj),
     Put(createConfigWithServers(agent, [github |-> PythonEntry(agent)]), "theme", "dark"),
     createConfigWithServers(agent, [github |-> HttpEntry(agent), files |-> PythonEntry(agent)])}

\* The configurations validate rejects: no servers key, an entry the schema
\* rejects, an entry whose URL does not parse.
InvalidConfigs(agent) ==
    {[invalidField |-> "value"],
     createConfigWithServers(agent, [files |-> BadTypeEntry(agent)]),
     createConfigWithServers(agent, [github |-> HttpEntry(agent), files |-> BadUrlEntry(agent)])}

\* The config arguments of write, mergeConfig and importConfig.
ConfigArgs(agent) == ValidConfigs(agent) \cup InvalidConfigs(agent)

\* What a configuration file may hold when the process starts.
InitialFiles(agent) ==
    {Absent, Blank, Garbage, NoAccess}
    \cup {HandFile(c) : c \in ValidConfigs(agent) \cup InvalidConfigs(agent)}

(***************************************************************************)
(* The inputs of the registry                                              *)
(***************************************************************************)

\* The servers registry files hold. GitHubServer passes every filter of
\* FilterValues, GitLabServer all but minDownloads, PostgresServer all but tags.
GitHubServer ==
    [id |-> "github", name |-> <<"G", "i", "t", "H", "u", "b">>, title |-> <<"G", "i", "t", "H", "u", "b", " ", "M", "C", "P">>,
     description |-> <<"g", "i", "t", " ", "h", "o", "s", "t", "i", "n", "g">>, maintainer |-> <<"A", "c", "m", "e", " ", "I", "n", "c">>,
     classification |-> "official", license |-> "MIT",
     estWeeklyDownloads |-> <<"5", "0", ",", "0", "0", "0", "+">>, lastUpdated |-> <<"2", "0", "2", "4", "-", "1", "1">>,
     supportedPlatforms |-> <<"claude", "vscode">>, transportTypes |-> <<"stdio", "http">>,
     npmPackage |-> "@mcp/github", dockerSupport |-> TRUE,
     tags |-> <<<<"g", "i", "t">>, <<"c", "o", "d", "e">>>>, category |-> "development"]

GitLabServer ==
    [id |-> "gitlab", name |-> <<"G", "i", "t", "L", "a", "b">>, title |-> <<"G", "i", "t", "L", "a", "b", " ", "M", "C", "P">>,
     description |-> <<"g", "i", "t", " ", "h", "o", "s", "t", "i", "n", "g">>, maintainer |-> <<"a", "c", "m", "e", " ", "l", "a", "b", "s">>,
     classification |-> "experimental", license |-> "MIT",
     estWeeklyDownloads |-> <<"9", "0", "0">>, lastUpdated |-> <<"2", "0", "2", "4", "-", "0", "9">>,
     supportedPlatforms |-> <<"cursor">>, transportTypes |-> <<"sse">>,
     npmPackage |-> "@mcp/gitlab", dockerSupport |-> TRUE,
     tags |-> <<<<"g", "i", "t">>>>, category |-> "development"]

PostgresServer ==
    [id |-> "postgres", name |-> <<"P", "o", "s", "t", "g", "r", "e", "s">>, title |-> <<"P", "o", "s", "t", "g", "r", "e", "s", " ", "M", "C", "P">>,
     description |-> <<"q", "u", "e", "r", "i", "e", "s">>, maintainer |-> <<"A", "C", "M", "E">>,
     classification |-> "official", license |-> "MIT",
     estWeeklyDownloads |-> <<"2", "K">>, lastUpdated |-> <<"2", "0", "2", "5", "-", "0", "1">>,
     supportedPlatforms |-> <<"vscode">>, transportTypes |-> <<"http">>,
     npmPackage |-> "pg-mcp", dockerSupport |-> TRUE,
     tags |-> <<<<"d", "a", "t", "a", "b", "a", "s", "e">>>>, category |-> "development"]

FilesServer ==
    [id |-> "files", name |-> <<"F", "i", "l", "e", "s">>, title |-> <<"F", "i", "l", "e", " ", "a", "c", "c", "e", "s", "s">>,
     description |-> <<"l", "o", "c", "a", "l", " ", "f", "i", "l", "e", "s">>, maintainer |-> <<"F", "i", "l", "e", "s", " ", "C", "o">>,
     classification |-> "community",
     estWeeklyDownloads |-> <<"N", "/", "A">>, lastUpdated |-> <<"2", "0", "2", "4", "-", "1", "1">>,
     supportedPlatforms |-> <<"claude">>, transportTypes |-> <<"stdio">>,
     npmPackage |-> "", dockerSupport |-> FALSE,
     tags |-> <<<<"f", "i", "l", "e", "s">>>>]

\* What the registry file may hold: it cannot be read, no server, the four
\* servers, three of them in another order.
RegistryFiles ==
    {NoRegistryFile,
     RegistryFile(<<>>),
     RegistryFile(<<GitHubServer, GitLabServer, PostgresServer, FilesServer>>),
     RegistryFile(<<FilesServer, PostgresServer, GitHubServer>>)}

\* A value for each filter of SearchFilters that a server may fail.
FilterValues ==
    [classification |-> <<"official", "experimental">>,
     transportTypes |-> <<"sse", "http">>,
     supportedPlatforms |-> <<"vscode", "cursor">>,
     tags |-> <<<<"g", "i", "t">>, <<"s", "q", "l">>>>,
     maintainer |-> <<"A", "C", "M", "E">>,
     category |-> "development",
     license |-> "MIT",
     dockerSupport |-> TRUE,
     hasNpmPackage |-> TRUE,
     minDownloads |-> 1000]

\* The empty value of each filter that has one.
EmptyValues ==
    [classification |-> <<>>, transportTypes |-> <<>>, supportedPlatforms |-> <<>>,
     tags |-> <<>>, maintainer |-> <<>>, category |-> "", license |-> "",
     minDownloads |-> 0]

\* The sets of filters supplied together: none, one, two, all, and all but one.
FilterKeySets ==
    LET all == DOMAIN FilterValues
        few == {{}} \cup {{k} : k \in all}
    IN  {a \cup b : a \in few, b \in few} \cup {all \ a : a \in few}

\* The filters of FilterValues whose keys are keys, the others omitted.
ValuedFilters(keys) == [k \in keys |-> FilterValues[k]]

\* Filters of a search with no query among which some are empty: the empty
\* filters, with none or one of them replaced by its value or by the other
\* boolean; and an empty and a blank query.
EmptyFilterArgs ==
    {EmptyValues}
    \cup {[k \in DOMAIN EmptyValues |-> IF k = key THEN FilterValues[k] ELSE EmptyValues[k]] :
             key \in DOMAIN EmptyValues}
    \cup {[dockerSupport |-> FALSE], [hasNpmPackage |-> FALSE],
          [dockerSupport |-> FALSE, hasNpmPackage |-> FALSE, tags |-> <<>>]}
    \cup {[query |-> <<>>, license |-> "MIT"], [query |-> <<" ">>, maintainer |-> <<"a", "c", "m", "e", " ", "l">>]}

\* The filters of a search with a query.
QueryArgs ==
    {[query |-> q] : q \in {<<"g", "i", "t">>, <<"G", "I", "T">>, <<"g", "h">>, <<"z", "z", "z">>}}
    \cup {[query |-> <<"g", "i", "t">>, classification |-> <<"official">>]}

\* The options of a search.
OptionArgs ==
    {EmptyObj, [limit |-> 1], [limit |-> 1, offset |-> 1],
     [sortBy |-> "name", sortOrder |-> "asc"], [sortBy |-> "downloads"],
     [sortBy |-> "updated", sortOrder |-> "asc"], [fuzzy |-> FALSE]}

\* The instants of the clock of a run that searches: the start, and the ages of
\* a registry loaded at the start that are not, and are, above StaleAfter.
Instants == {0, StaleAfter, StaleAfter + 1}

(***************************************************************************)
(* The state machine                                                       *)
(***************************************************************************)

\* The number of calls of a run that starts from any disk (Spec).
MaxCalls == 1

\* The number of calls of a run that takes and restores backups (SpecBackup).
MaxBackupCalls == 2

\* What is remembered of a backup: whether backup(scope) returned its path
\* while read(scope) returned a configuration, and that scope and configuration.
NoHeld == [taken |-> FALSE, scope |-> "-", config |-> NoDoc]

\* The record of a call: the method, and whether it resolved or the message it
\* rejected with.
Call(op, r) == [op |-> op, ok |-> r.ok, err |-> r.err]

\* A backup file left by an earlier run for configuration c, holding configuration d:
\* intact when d = c, damaged on disk otherwise.
StaleBackup(agent, c, d) ==
    [exists |-> TRUE,
     metadata |-> [id |-> BackupId(agent, "user", 0), agent |-> agent, scope |-> "user",
                   configPath |-> getAgentConfigPath(agent, "user"),
                   checksum |-> calculateChecksum(Stringify(c))],
     config |-> d]

\* The backup directory a run that takes backups starts with: one backup of an
\* earlier run (of the clock's time 0), damaged on disk since.
InitialBackups(agent) ==
    [id \in AllBackupIds |->
        IF id = BackupId(agent, "user", 0)
        THEN StaleBackup(agent, createConfigWithServers(agent, [github |-> PythonEntry(agent)]),
                         createConfigWithServers(agent, [github |-> HttpEntry(agent)]))
        ELSE NoBackup]

\* What is kept of a search: whether it resolved, the ids of the servers of
\* the response's results in their order, its total and hasMore, its query, and
\* whether the call supplied several filters other than the query.
NoFound == [ok |-> FALSE, err |-> <<"no search">>, ids |-> <<>>, total |-> 0,
            hasMore |-> FALSE, query |-> <<>>, several |-> FALSE]

\* No registry operation is under way.
NoCallers == <<>>

\* No command runs.
NoCli == [command |-> "-"]

\* No SecurityManager was made, and the keychain holds nothing of the service.
NoKeychain == EmptyObj
NoSecurity == [op |-> "-"]
SecurityUnused == keychain = NoKeychain /\ security = NoSecurity

\* A run that makes no search has no registry.
RegistryUnused ==
    /\ registryFile = NoRegistryFile
    /\ registry = NullRegistry
    /\ lastLoaded = NoTime
    /\ searched = NoFound
    /\ fileReads = 0
    /\ callers = NoCallers
    /\ cli = NoCli
    /\ SecurityUnused

\* What the project-scope file and an alternative user file hold when a run
\* starts: nothing, white space, a valid or an invalid configuration.
InitialOtherFiles(agent) ==
    {Absent, Blank,
     HandFile(createConfigWithServers(agent, [files |-> HttpEntry(agent)])),
     HandFile(createConfigWithServers(agent, [files |-> BadTypeEntry(agent)]))}

\* The disk on which the user-scope file of the agent holds user, its
\* project-scope file project, any alternative user file alt, and no other
\* file exists.
DiskOf(agent, user, project, alt) ==
    [p \in AllPaths |->
        IF p = getAgentConfigPath(agent, "user") THEN user
        ELSE IF p = getAgentConfigPath(agent, "project") THEN project
        ELSE IF p \in AgentPaths(agent) THEN alt
        ELSE Absent]

\* A run starts with the adapter of one agent, any content in that agent's
\* user-scope file, and an empty backup directory.
Init ==
    /\ adapter \in Adapters
    /\ \E user \in InitialFiles(adapter), project \in InitialOtherFiles(adapter),
          alt \in InitialOtherFiles(adapter) :
         files = DiskOf(adapter, user, project, alt)
    /\ backups = [id \in AllBackupIds |-> NoBackup]
    /\ now = 1
    /\ last = [op |-> "init", ok |-> TRUE, err |-> <<>>]
    /\ held = [id \in AllBackupIds |-> NoHeld]
    /\ budget = MaxCalls
    /\ RegistryUnused

\* The disks a run that takes backups starts with, as the contents of the
\* user-scope file, the project-scope file and an alternative user file: a
\* user file alone (valid, or one validate rejects), no file, a project file
\* alone, a user and a project file, an alternative user file alone.
BackupRunDisks(agent) ==
    LET user == HandFile(Put(createConfigWithServers(agent, [github |-> PythonEntry(agent)]),
                             "theme", "dark"))
        bad == HandFile(createConfigWithServers(agent,
                           [github |-> HttpEntry(agent), files |-> BadUrlEntry(agent)]))
        other == HandFile(createConfigWithServers(agent, [files |-> HttpEntry(agent)]))
    IN  {DiskOf(agent, d[1], d[2], d[3]) :
            d \in {<<user, Absent, Absent>>, <<bad, Absent, Absent>>,
                   <<Absent, Absent, Absent>>, <<Absent, other, Absent>>,
                   <<user, other, Absent>>, <<Absent, Absent, other>>}}

\* A run that takes backups starts with one of a few disks and with the backup
\* directory an earlier run left.
InitBackup ==
    /\ adapter \in Adapters
    /\ files \in BackupRunDisks(adapter)
    /\ backups = InitialBackups(adapter)
    /\ now = 1
    /\ last = [op |-> "init", ok |-> TRUE, err |-> <<>>]
    /\ held = [id \in AllBackupIds |-> NoHeld]
    /\ budget = MaxBackupCalls
    /\ RegistryUnused

\* One more call is made.
Called == budget > 0 /\ budget' = budget - 1

\* read(scope) is called (exportConfig is the same call).
Read ==
    /\ Called
    /\ \E scope \in Scopes :
         last' = Call("read", read(files, adapter, scope))
    /\ UNCHANGED <<adapter, files, backups, now, held>>
    /\ UNCHANGED <<registryVars, cli, securityVars>>

\* write(config, scope) is called.
Write ==
    /\ Called
    /\ \E scope \in Scopes, config \in ConfigArgs(adapter) :
         LET r == write(files, adapter, config, scope)
         IN  files' = r.fs /\ last' = Call("write", r)
    /\ UNCHANGED <<adapter, backups, now, held>>
    /\ UNCHANGED <<registryVars, cli, securityVars>>

\* addServer(serverId, serverConfig, scope) is called.
AddServer ==
    /\ Called
    /\ \E scope \in Scopes, id \in ServerIds, serverConfig \in ServerConfigs :
         LET r == addServer(files, adapter, id, serverConfig, scope)
         IN  files' = r.fs /\ last' = Call("addServer", r)
    /\ UNCHANGED <<adapter, backups, now, held>>
    /\ UNCHANGED <<registryVars, cli, securityVars>>

\* updateServer(serverId, serverConfig, scope) is called.
UpdateServer ==
    /\ Called
    /\ \E scope \in Scopes, id \in ServerIds, serverConfig \in ServerConfigs :
         LET r == updateServer(files, adapter, id, serverConfig, scope)
         IN  files' = r.fs /\ last' = Call("updateServer", r)
    /\ UNCHANGED <<adapter, backups, now, held>>
    /\ UNCHANGED <<registryVars, cli, securityVars>>

\* removeServer(serverId, scope) is called.
RemoveServer ==
    /\ Called
    /\ \E scope \in Scopes, id \in ServerIds :
         LET r == removeServer(files, adapter, id, scope)
         IN  files' = r.fs /\ last' = Call("removeServer", r)
    /\ UNCHANGED <<adapter, backups, now, held>>
    /\ UNCHANGED <<registryVars, cli, securityVars>>

\* mergeConfig(sourceConfig, scope, overwrite) is called.
MergeConfig ==
    /\ Called
    /\ \E scope \in Scopes, sourceConfig \in ConfigArgs(adapter), overwrite \in BOOLEAN :
         LET r == mergeConfig(files, adapter, sourceConfig, scope, overwrite)
         IN  files' = r.fs /\ last' = Call("mergeConfig", r)
    /\ UNCHANGED <<adapter, backups, now, held>>
    /\ UNCHANGED <<registryVars, cli, securityVars>>

\* importConfig(config, scope, merge) is called.
ImportConfig ==
    /\ Called
    /\ \E scope \in Scopes, config \in ConfigArgs(adapter), merge \in BOOLEAN :
         LET r == importConfig(files, adapter, config, scope, merge)
         IN  files' = r.fs /\ last' = Call("importConfig", r)
    /\ UNCHANGED <<adapter, backups, now, held>>
    /\ UNCHANGED <<registryVars, cli, securityVars>>

\* vscodeAdapter.toggleServer(serverId, enabled, scope) is called.
ToggleServer ==
    /\ Called
    /\ adapter = "vscode"
    /\ \E scope \in Scopes, id \in ServerIds, enabled \in BOOLEAN :
         LET r == toggleServer(files, adapter, id, enabled, scope)
         IN  files' = r.fs /\ last' = Call("toggleServer", r)
    /\ UNCHANGED <<adapter, backups, now, held>>
    /\ UNCHANGED <<registryVars, cli, securityVars>>

\* backup(scope) is called at a time t of the clock, which never runs backwards;
\* what read(scope) returns at that time is remembered with the backup's id.
Backup ==
    /\ Called
    /\ \E scope \in Scopes, t \in now..MaxTime :
         LET r == backup(files, backups, t, adapter, scope)
             c == read(files, adapter, scope)
         IN  /\ backups' = r.bk
             /\ now' = t
             /\ held' = IF ~r.ok THEN held
                        ELSE [held EXCEPT ![Basename(r.path)] =
                                IF c.ok THEN [taken |-> TRUE, scope |-> scope, config |-> c.config]
                                ELSE NoHeld]
             /\ last' = Call("backup", r)
    /\ UNCHANGED <<adapter, files>>
    /\ UNCHANGED <<registryVars, cli, securityVars>>

\* The backup paths restore is called with: those of the backups there are, and
\* one at which there is none.
RestoreArgs(bk) == {BackupPath(id) : id \in {i \in DOMAIN bk : bk[i].exists} \cup {"no-such-backup"}}

\* restore(backupPath, scope) is called.
Restore ==
    /\ Called
    /\ \E scope \in Scopes, backupPath \in RestoreArgs(backups) :
         LET r == restore(files, backups, backupPath, scope)
         IN  files' = r.fs /\ last' = Call("restore", r)
    /\ UNCHANGED <<adapter, backups, now, held>>
    /\ UNCHANGED <<registryVars, cli, securityVars>>

\* The calls on an adapter that leave the backup directory alone.
Next ==
    \/ Read
    \/ Write
    \/ AddServer
    \/ UpdateServer
    \/ RemoveServer
    \/ MergeConfig
    \/ ImportConfig
    \/ ToggleServer

Spec == Init /\ [][Next]_vars

\* The calls that change the servers of a configuration, and backup and restore.
NextBackup ==
    \/ AddServer
    \/ UpdateServer
    \/ RemoveServer
    \/ MergeConfig
    \/ Backup
    \/ Restore

SpecBackup == InitBackup /\ [][NextBackup]_vars
(***************************************************************************)
(* The state machine of the registry                                       *)
(***************************************************************************)

\* The most reads of the registry file that a run counts.
MaxReads == 3

\* A call that starts on the manager mgr reads the registry file when
\* ensureLoaded finds it stale, and the read is counted.
ReadCounted(mgr) ==
    IF IsStale(mgr, now)
    THEN fileReads < MaxReads /\ fileReads' = fileReads + 1
    ELSE fileReads' = fileReads

\* What is kept of the outcome r of searchServers(filters, options).
Found(r, filters) ==
    IF ~r.ok THEN [NoFound EXCEPT !.err = r.err]
    ELSE [ok |-> TRUE, err |-> <<>>,
          ids |-> [i \in DOMAIN r.response.results |-> r.response.results[i].server.id],
          total |-> r.response.total,
          hasMore |-> r.response.hasMore,
          query |-> r.response.query,
          several |-> Cardinality(DOMAIN filters \ {"query"}) > 1]

\* A run that searches starts with a new manager and any registry file; it
\* makes no call on an adapter.
InitRegistry ==
    /\ adapter = "claude"
    /\ files = DiskOf(adapter, Absent, Absent, Absent)
    /\ backups = [id \in AllBackupIds |-> NoBackup]
    /\ now = 0
    /\ last = [op |-> "init", ok |-> TRUE, err |-> <<>>]
    /\ held = [id \in AllBackupIds |-> NoHeld]
    /\ budget = 0
    /\ registryFile \in RegistryFiles
    /\ registry = NullRegistry
    /\ lastLoaded = NoTime
    /\ searched = NoFound
    /\ fileReads = 0
    /\ callers = NoCallers
    /\ cli = NoCli
    /\ SecurityUnused

\* searchServers(filters, options) is called.
Search(filters, options) ==
    LET mgr == [registry |-> registry, lastLoaded |-> lastLoaded]
        r == searchServers(mgr, registryFile, now, filters, options)
    IN  /\ ReadCounted(mgr)
        /\ registry' = r.mgr.registry
        /\ lastLoaded' = r.mgr.lastLoaded
        /\ searched' = Found(r, filters)
        /\ UNCHANGED <<adapterVars, now, registryFile, callers, cli, securityVars>>

\* A search is made: with filters and no query, or with a query or none and
\* with options.
SearchServers ==
    \/ \E keys \in FilterKeySets : Search(ValuedFilters(keys), EmptyObj)
    \/ \E filters \in EmptyFilterArgs : Search(filters, EmptyObj)
    \/ \E filters \in QueryArgs \cup {EmptyObj}, options \in OptionArgs :
          Search(filters, options)

\* Time passes.
RegistryTick ==
    /\ \E t \in Instants : t > now /\ now' = t
    /\ UNCHANGED <<adapterVars, registryVars, cli, securityVars>>

NextRegistry ==
    \/ SearchServers
    \/ RegistryTick

SpecRegistry == InitRegistry /\ [][NextRegistry]_vars

(***************************************************************************)
(* The other operations of the registry                                    *)
(***************************************************************************)

\* What an operation resolves with, or its rejection; mgr is the manager after.
Returns(value, mgr) == [ok |-> TRUE, err |-> <<>>, mgr |-> mgr, value |-> value]
Throws(err, mgr) == [ok |-> FALSE, err |-> err, mgr |-> mgr, value |-> <<>>]

\* await this.ensureLoaded(); if (!this.registry) throw ...: the call goes on
\* with this.registry.servers, or rejects
OfServers(mgr, file, t) ==
    LET loaded == ensureLoaded(mgr, file, t)
    IN  IF ~loaded.ok THEN Throws(loaded.err, mgr)
        ELSE IF loaded.mgr.registry = NullRegistry
        THEN Throws(<<"Registry not loaded">>, loaded.mgr)
        ELSE Returns(loaded.mgr.registry.servers, loaded.mgr)

\* servers.find(s => s.id === id) || null: no server or one
FindServer(servers, id) ==
    LET found == {i \in DOMAIN servers : servers[i].id = id}
    IN  IF found = {} THEN <<>>
        ELSE <<servers[CHOOSE i \in found : \A j \in found : i <= j]>>

\* getServer(id)
getServer(mgr, file, t, id) ==
    LET servers == OfServers(mgr, file, t)
    IN  IF ~servers.ok THEN servers
        ELSE Returns(FindServer(servers.value, id), servers.mgr)

\* getAllServers(): a copy of the servers
getAllServers(mgr, file, t) == OfServers(mgr, file, t)

\* getServersByCategory(category)
getServersByCategory(mgr, file, t, category) ==
    LET servers == OfServers(mgr, file, t)
        InCategory(server) == "category" \in DOMAIN server /\ server.category = category
    IN  IF ~servers.ok THEN servers
        ELSE Returns(SelectSeq(servers.value, InCategory), servers.mgr)

\* getServersByTag(tag)
getServersByTag(mgr, file, t, tag) ==
    LET servers == OfServers(mgr, file, t)
        Tagged(server) == InList(tag, server.tags)
    IN  IF ~servers.ok THEN servers
        ELSE Returns(SelectSeq(servers.value, Tagged), servers.mgr)

\* servers.reduce(...) of getStats: for each key, how many times it is among
\* the keys of the servers, keys[i] being the keys of the i-th server
CountBy(keys) ==
    LET at == UNION {{<<i, j>> : j \in DOMAIN keys[i]} : i \in DOMAIN keys}
    IN  [k \in {keys[p[1]][p[2]] : p \in at} |->
            Cardinality({p \in at : keys[p[1]][p[2]] = k})]

\* The servers as results.sort takes them, and the servers of results.
AsResults(servers) ==
    [i \in DOMAIN servers |->
        [server |-> servers[i], score |-> Score(1, 1), matchedFields |-> <<>>]]
ServersOf(results) == [i \in DOMAIN results |-> results[i].server]

\* [...servers].sort(callback).slice(0, n): a copy of the servers sorted from
\* the highest by downloads or by date of update
TopServers(servers, by, n) ==
    Slice(ServersOf(SortResults(AsResults(servers), by, "desc")), 0, n)

\* mostPopular.slice(0, 5): for now, trending = most popular
WithTrending(stats) == [stats EXCEPT !.trending = Slice(stats.mostPopular, 0, 5)]

\* The statistics that getStats() computes of the servers.
StatsOf(servers) ==
    WithTrending(
        [totalServers |-> Len(servers),
         byClassification |-> CountBy([i \in DOMAIN servers |-> <<servers[i].classification>>]),
         byTransport |-> CountBy([i \in DOMAIN servers |-> servers[i].transportTypes]),
         byAgent |-> CountBy([i \in DOMAIN servers |-> servers[i].supportedPlatforms]),
         byCategory |-> CountBy([i \in DOMAIN servers |->
                                    IF "category" \in DOMAIN servers[i]
                                    THEN <<servers[i].category>> ELSE <<>>]),
         mostPopular |-> TopServers(servers, "downloads", 10),
         recentlyUpdated |-> TopServers(servers, "updated", 10),
         trending |-> <<>>])

\* A getStats() that sorts this.registry.servers itself, without a copy.
getStatsSortingInPlace(mgr, file, t) ==
    LET servers == OfServers(mgr, file, t)
        stats == StatsOf(servers.value)
    IN  IF ~servers.ok THEN servers
        ELSE Returns(stats, [servers.mgr EXCEPT !.registry.servers = stats.recentlyUpdated])

\* getStats()
getStats(mgr, file, t) ==
    LET servers == OfServers(mgr, file, t)
    IN  IF ~servers.ok THEN servers
        ELSE Returns(StatsOf(servers.value), servers.mgr)

\* validateRegistry(): false when the load rejects
validateRegistry(mgr, file, t) ==
    LET loaded == ensureLoaded(mgr, file, t)
    IN  IF loaded.ok THEN Returns(loaded.mgr.registry # NullRegistry, loaded.mgr)
        ELSE Returns(FALSE, mgr)

\* checkServerHealth(serverId, agent)
checkServerHealth(mgr, file, t, serverId, agent) ==
    LET server == getServer(mgr, file, t, serverId)
    IN  IF ~server.ok THEN server
        ELSE Returns([serverId |-> serverId, status |-> "unknown", agent |-> agent,
                       transport |-> IF server.value # <<>>
                                        /\ server.value[1].transportTypes # <<>>
                                     THEN server.value[1].transportTypes[1]
                                     ELSE "stdio",
                       details |-> [configValid |-> TRUE, environmentValid |-> TRUE]],
                      server.mgr)

\* checkAllServersHealth(agent): the servers are got, then the health of each
checkAllServersHealth(mgr, file, t, agent) ==
    LET servers == getAllServers(mgr, file, t)
    IN  IF ~servers.ok THEN servers
        ELSE Returns([i \in DOMAIN servers.value |->
                          checkServerHealth(servers.mgr, file, t,
                                            servers.value[i].id, agent).value],
                      servers.mgr)

(***************************************************************************)
(* The state machine of the registry under several callers                 *)
(***************************************************************************)

\* The number of callers that share the manager; each makes one call.
MaxCallers == 2

\* A call of the operation name, with its arguments when it takes some.
Op(name) == [name |-> name, key |-> "-", text |-> <<>>,
             filters |-> EmptyObj, options |-> EmptyObj]

\* The calls that a caller makes.
Operations ==
    {Op("loadRegistry"), Op("getAllServers"), Op("getStats"), Op("validateRegistry"),
     Op("checkAllServersHealth"),
     [Op("getServer") EXCEPT !.key = "github"],
     [Op("getServersByCategory") EXCEPT !.key = "development"],
     [Op("getServersByTag") EXCEPT !.text = <<"g", "i", "t">>],
     [Op("searchServers") EXCEPT !.options = [sortBy |-> "name", sortOrder |-> "asc"]]}

\* The outcome r of searchServers, its response being the value.
Responded(r) == IF r.ok THEN Returns(r.response, r.mgr) ELSE Throws(r.err, r.mgr)

\* The call op at time t on the manager mgr.
Run(op, mgr, file, t) ==
    CASE op.name = "loadRegistry" ->
           LET loaded == loadRegistry(mgr, file, t)
           IN  IF loaded.ok THEN Returns(<<>>, loaded.mgr) ELSE Throws(loaded.err, mgr)
      [] op.name = "getServer" -> getServer(mgr, file, t, op.key)
      [] op.name = "getAllServers" -> getAllServers(mgr, file, t)
      [] op.name = "getServersByCategory" -> getServersByCategory(mgr, file, t, op.key)
      [] op.name = "getServersByTag" -> getServersByTag(mgr, file, t, op.text)
      [] op.name = "getStats" -> getStats(mgr, file, t)
      [] op.name = "validateRegistry" -> validateRegistry(mgr, file, t)
      [] op.name = "checkAllServersHealth" -> checkAllServersHealth(mgr, file, t, "claude")
      [] op.name = "searchServers" ->
           Responded(searchServers(mgr, file, t, op.filters, op.options))

\* The call op starts with a read of the registry file: loadRegistry() always
\* does, the others when ensureLoaded finds the registry stale.
StartsRead(op, mgr, t) == op.name = "loadRegistry" \/ IsStale(mgr, t)

\* A caller that has made no call.
Idle == [pc |-> "idle", op |-> Op("-"), reads |-> 0,
         ok |-> TRUE, err |-> <<>>, count |-> 0, first |-> "-"]

\* What a caller keeps of the outcome r of its call op: for a list of servers
\* or of results, how many they are and the first of them; for statistics,
\* totalServers and the first of recentlyUpdated.
Outcome(op, r, reads) ==
    LET list == CASE ~r.ok -> <<>>
                  [] op.name = "getStats" -> r.value.recentlyUpdated
                  [] op.name = "searchServers" ->
                       [i \in DOMAIN r.value.results |-> r.value.results[i].server]
                  [] op.name \in {"getServer", "getAllServers", "getServersByCategory",
                                  "getServersByTag"} -> r.value
                  [] OTHER -> <<>>
    IN  [pc |-> "done", op |-> op, reads |-> reads, ok |-> r.ok, err |-> r.err,
         count |-> CASE ~r.ok -> 0
                     [] op.name = "getStats" -> r.value.totalServers
                     [] op.name = "searchServers" -> r.value.total
                     [] OTHER -> Len(list),
         first |-> IF list = <<>> THEN "-" ELSE list[1].id]

\* What the registry file may hold in a run of callers: it cannot be read, it
\* is not JSON, or three servers that no order of getStats or of a search
\* keeps as they are.
LoadedFiles ==
    {NoRegistryFile, InvalidRegistryFile,
     RegistryFile(<<FilesServer, PostgresServer, GitHubServer>>)}

\* A run of callers starts with a new manager and any registry file.
InitLoads ==
    /\ adapter = "claude"
    /\ files = DiskOf(adapter, Absent, Absent, Absent)
    /\ backups = [id \in AllBackupIds |-> NoBackup]
    /\ now = 0
    /\ last = [op |-> "init", ok |-> TRUE, err |-> <<>>]
    /\ held = [id \in AllBackupIds |-> NoHeld]
    /\ budget = 0
    /\ registryFile \in LoadedFiles
    /\ registry = NullRegistry
    /\ lastLoaded = NoTime
    /\ searched = NoFound
    /\ fileReads = 0
    /\ callers = [c \in 1..MaxCallers |-> Idle]
    /\ cli = NoCli
    /\ SecurityUnused

\* The call op of the caller c completes with the outcome r, after reads
\* reads of the file.
Completes(c, op, r, reads) ==
    /\ callers' = [callers EXCEPT ![c] = Outcome(op, r, reads)]
    /\ registry' = r.mgr.registry
    /\ lastLoaded' = r.mgr.lastLoaded

\* The manager as it is.
Manager == [registry |-> registry, lastLoaded |-> lastLoaded]

\* The caller c makes its call, op. When the call starts with a read of the
\* file, fs.readFile is called before the call first yields, and the call goes
\* on when the read has completed; otherwise nothing is awaited that is not
\* already there, and the call completes.
Calls(c, op) ==
    /\ callers[c].pc = "idle"
    /\ IF StartsRead(op, Manager, now)
       THEN /\ fileReads < MaxReads
            /\ fileReads' = fileReads + 1
            /\ callers' = [callers EXCEPT
                              ![c] = [Idle EXCEPT !.pc = "reading", !.op = op, !.reads = 1]]
            /\ UNCHANGED <<registry, lastLoaded>>
       ELSE /\ Completes(c, op, Run(op, Manager, registryFile, now), 0)
            /\ UNCHANGED fileReads
    /\ UNCHANGED <<adapterVars, now, registryFile, searched, cli, securityVars>>

\* The manager after the read that a call started has completed: loadRegistry
\* parses the text and assigns this.registry and this.lastLoaded, or throws
\* and leaves them.
AfterRead(loaded) == IF loaded.ok THEN loaded.mgr ELSE Manager

\* The read that the call of the caller c started completes, and the rest of
\* the call runs on the manager that loadRegistry leaves; a call of
\* loadRegistry is that load.
ReadCompletes(c) ==
    /\ callers[c].pc = "reading"
    /\ Completes(c, callers[c].op,
                 Run(callers[c].op,
                     IF callers[c].op.name = "loadRegistry" THEN Manager
                     ELSE AfterRead(loadRegistry(Manager, registryFile, now)),
                     registryFile, now),
                 callers[c].reads)
    /\ UNCHANGED <<adapterVars, now, registryFile, searched, fileReads, cli, securityVars>>

NextLoads ==
    \/ \E c \in 1..MaxCallers, op \in Operations : Calls(c, op)
    \/ \E c \in 1..MaxCallers : ReadCompletes(c)
    \/ RegistryTick

SpecLoads == InitLoads /\ [][NextLoads]_vars

(***************************************************************************)
(* The command line: main and the commands                                 *)
(***************************************************************************)

\* An awaited call of a command, at the place site. handlers are the catch
\* blocks around it from the innermost: one throws the error again after
\* reporting it or passes it to reject ("rethrow"), calls process.exit(1)
\* ("exit"), or goes on ("ignore"), leaving out the skips next calls.
\* mayReturn: on some results of the call the command returns at once.
Await(site, handlers, mayReturn, skips) ==
    [kind |-> "await", site |-> site, handlers |-> handlers,
     mayReturn |-> mayReturn, skips |-> skips]

\* setTimeout(callback, ms): the callback is left for later, nothing is awaited
SetTimeout(site) ==
    [kind |-> "timer", site |-> site, handlers |-> <<>>, mayReturn |-> FALSE, skips |-> 0]

\* initCommand: the registry's servers and statistics, each inside the
\* spinner's try (which throws again) and the command's (which exits)
initCommand ==
    <<Await("registryManager.getAllServers", <<"rethrow", "rethrow", "exit">>, FALSE, 0),
      Await("registryManager.getStats", <<"rethrow", "rethrow", "exit">>, FALSE, 0)>>

\* listCommand for one agent, one scope and one installed server:
\* collectServerInfo and getServerInfo go on after every failure
listCommand ==
    <<Await("adapter.isInstalled", <<"ignore", "rethrow", "exit">>, TRUE, 4),
      Await("adapter.getInstalledServers", <<"ignore", "ignore", "rethrow", "exit">>, FALSE, 3),
      Await("registryManager.getServer (list)", <<"rethrow", "ignore">>, FALSE, 2),
      Await("adapter.getConfigStats", <<"ignore">>, FALSE, 1),
      Await("adapter.read", <<"ignore">>, FALSE, 0)>>

\* activateCommand, deactivateCommand and removeCommand: spinner.succeed is
\* left to a timer of 1000 ms
activateCommand == <<SetTimeout("spinner.succeed (activate)")>>
deactivateCommand == <<SetTimeout("spinner.succeed (deactivate)")>>
removeCommand == <<SetTimeout("spinner.succeed (remove)")>>

\* doctorCommand: spinner.succeed is left to a timer of 2000 ms
doctorCommand == <<SetTimeout("spinner.succeed (doctor)")>>

\* importCommand, switchCommand and editCommand only print.
importCommand == <<>>
switchCommand == <<>>
editCommand == <<>>

\* searchCommand: the catch fails the spinner and throws the error again
searchCommand ==
    <<Await("registryManager.searchServers", <<"rethrow", "rethrow">>, FALSE, 0)>>

\* keychainSetCommand when interactive: the prompt, then storeSecret(), whose
\* catch throws again into the command's
keychainSetCommand ==
    <<Await("inquirer.prompt (set)", <<"exit">>, FALSE, 0),
      Await("securityManager.storeSecret", <<"rethrow", "rethrow", "exit">>, FALSE, 0)>>

\* keychainSetCommand with interactive false: the command returns a promise
\* that the 'end' of stdin settles, so its try is left before anything is
\* thrown; an empty secret and a failure of storeSecret() reject the promise
keychainSetCommandFromStdin ==
    <<Await("stdin.on('end')", <<>>, FALSE, 0),
      Await("securityManager.storeSecret (stdin)", <<"rethrow", "rethrow", "rethrow">>, FALSE, 0)>>

\* A keychainGetCommand whose catch reports the error and does not exit.
keychainGetCommandNotExiting ==
    <<Await("securityManager.getSecret", <<"rethrow", "ignore">>, TRUE, 1),
      Await("keytar.getPassword (metadata)", <<"ignore">>, FALSE, 0)>>

\* keychainGetCommand: getSecret reads the secret, then its metadata, whose
\* errors it ignores; no secret, and the command returns
keychainGetCommand ==
    <<Await("securityManager.getSecret", <<"rethrow", "exit">>, TRUE, 0),
      Await("keytar.getPassword (metadata)", <<"ignore">>, FALSE, 0)>>

\* keychainDeleteCommand: the confirmation, then deleteSecret, which deletes
\* the secret, then its metadata, whose errors it ignores
keychainDeleteCommand ==
    <<Await("inquirer.prompt (delete)", <<"exit">>, TRUE, 0),
      Await("securityManager.deleteSecret", <<"rethrow", "exit">>, FALSE, 0),
      Await("keytar.deletePassword (metadata)", <<"ignore">>, FALSE, 0)>>

\* keychainListCommand with verbose and two accounts: listSecrets, then
\* getSecret of each account, whose failure makes a row of the table
keychainListCommand ==
    <<Await("securityManager.listSecrets", <<"rethrow", "exit">>, TRUE, 0),
      Await("securityManager.getSecret (list, first)", <<"rethrow", "ignore", "exit">>, FALSE, 1),
      Await("keytar.getPassword (metadata, list, first)", <<"ignore">>, FALSE, 0),
      Await("securityManager.getSecret (list, second)", <<"rethrow", "ignore", "exit">>, FALSE, 1),
      Await("keytar.getPassword (metadata, list, second)", <<"ignore">>, FALSE, 0)>>

\* securityScanCommand of a file
securityScanCommand ==
    <<Await("fs.readFile (scan)", <<"exit">>, FALSE, 0)>>

\* generateTokenCommand: whether to store the token, under which account,
\* then storeSecret
generateTokenCommand ==
    <<Await("inquirer.prompt (store)", <<"exit">>, TRUE, 0),
      Await("inquirer.prompt (account)", <<"exit">>, FALSE, 0),
      Await("securityManager.storeSecret (token)", <<"rethrow", "exit">>, FALSE, 0)>>

\* program.command(...).action(...): the command of each name
Program(command) ==
    CASE command = "init" -> initCommand
      [] command = "list" -> listCommand
      [] command = "activate" -> activateCommand
      [] command = "deactivate" -> deactivateCommand
      [] command = "remove" -> removeCommand
      [] command = "doctor" -> doctorCommand
      [] command = "search" -> searchCommand
      [] command = "import" -> importCommand
      [] command = "switch" -> switchCommand
      [] command = "edit" -> editCommand
      [] command = "keychain set" -> keychainSetCommand
      [] command = "keychain set --no-interactive" -> keychainSetCommandFromStdin
      [] command = "keychain get" -> keychainGetCommand
      [] command = "keychain delete" -> keychainDeleteCommand
      [] command = "keychain list --verbose" -> keychainListCommand
      [] command = "keychain security --scan" -> securityScanCommand
      [] command = "keychain generate" -> generateTokenCommand

CommandNames ==
    {"init", "list", "activate", "deactivate", "remove", "doctor", "search", "import",
     "switch", "edit", "keychain set", "keychain set --no-interactive", "keychain get",
     "keychain delete", "keychain list --verbose", "keychain security --scan",
     "keychain generate"}

\* main(): the catch around `await program.parseAsync(process.argv)` calls
\* process.exit(1)
MainHandlers == <<"exit">>

\* What becomes of an error under the handlers, from the innermost: the first
\* that does not throw it again decides; a rejection that none handles is
\* left to process.on('unhandledRejection'), which calls process.exit(1).
RECURSIVE Handle(_)
Handle(handlers) ==
    IF handlers = <<>> THEN "exit"
    ELSE IF Head(handlers) = "rethrow" THEN Handle(Tail(handlers))
    ELSE Head(handlers)

(***************************************************************************)
(* The state machine of a command                                          *)
(***************************************************************************)

\* The process that runs command, before the command's first call.
Launched(command) ==
    [command |-> command, pc |-> 1, raised |-> {}, timers |-> 0,
     resolved |-> FALSE, ended |-> FALSE, exitCode |-> 0]

\* One invocation: a process runs one command and touches no adapter and no
\* registry manager of the other runs.
InitCli ==
    /\ adapter = "claude"
    /\ files = DiskOf(adapter, Absent, Absent, Absent)
    /\ backups = [id \in AllBackupIds |-> NoBackup]
    /\ now = 0
    /\ last = [op |-> "init", ok |-> TRUE, err |-> <<>>]
    /\ held = [id \in AllBackupIds |-> NoHeld]
    /\ budget = 0
    /\ registryFile = NoRegistryFile
    /\ registry = NullRegistry
    /\ lastLoaded = NoTime
    /\ searched = NoFound
    /\ fileReads = 0
    /\ callers = NoCallers
    /\ SecurityUnused
    /\ \E command \in CommandNames : cli = Launched(command)

\* The command is at its next call or timer.
AtStep == ~cli.ended /\ cli.pc <= Len(Program(cli.command))

\* The awaited call resolves and the command goes on.
AwaitResolves ==
    /\ AtStep /\ Program(cli.command)[cli.pc].kind = "await"
    /\ cli' = [cli EXCEPT !.pc = @ + 1]
    /\ UNCHANGED <<adapterVars, now, registryVars, securityVars>>

\* The awaited call resolves with a result on which the command returns.
AwaitReturns ==
    /\ AtStep /\ Program(cli.command)[cli.pc].kind = "await"
    /\ Program(cli.command)[cli.pc].mayReturn
    /\ cli' = [cli EXCEPT !.pc = Len(Program(cli.command)) + 1]
    /\ UNCHANGED <<adapterVars, now, registryVars, securityVars>>

\* The awaited call throws: a catch that ignores the error lets the command
\* go on; otherwise the command's catch, or main's when the command rejects,
\* calls process.exit(1).
AwaitThrows ==
    LET step == Program(cli.command)[cli.pc]
    IN  /\ AtStep /\ step.kind = "await"
        /\ cli' = IF Handle(step.handlers \o MainHandlers) = "ignore"
                  THEN [cli EXCEPT !.pc = @ + 1 + step.skips,
                                   !.raised = @ \cup {step.site}]
                  ELSE [cli EXCEPT !.raised = @ \cup {step.site},
                                   !.ended = TRUE, !.exitCode = 1]
        /\ UNCHANGED <<adapterVars, now, registryVars, securityVars>>

\* setTimeout is called.
TimerStarts ==
    /\ AtStep /\ Program(cli.command)[cli.pc].kind = "timer"
    /\ cli' = [cli EXCEPT !.pc = @ + 1, !.timers = @ + 1]
    /\ UNCHANGED <<adapterVars, now, registryVars, securityVars>>

\* The command returns: its promise resolves and main's await completes.
CommandResolves ==
    /\ ~cli.ended /\ ~cli.resolved
    /\ cli.pc > Len(Program(cli.command))
    /\ cli' = [cli EXCEPT !.resolved = TRUE]
    /\ UNCHANGED <<adapterVars, now, registryVars, securityVars>>

\* A timer fires and its callback prints. The commands that start a timer
\* await nothing, so they have returned before the event loop runs a timer.
TimerFires ==
    /\ ~cli.ended /\ cli.resolved /\ cli.timers > 0
    /\ cli' = [cli EXCEPT !.timers = @ - 1]
    /\ UNCHANGED <<adapterVars, now, registryVars, securityVars>>

\* Nothing is left to run: the process ends with status 0.
ProcessEnds ==
    /\ ~cli.ended /\ cli.resolved /\ cli.timers = 0
    /\ cli' = [cli EXCEPT !.ended = TRUE, !.exitCode = 0]
    /\ UNCHANGED <<adapterVars, now, registryVars, securityVars>>

NextCli ==
    \/ AwaitResolves
    \/ AwaitReturns
    \/ AwaitThrows
    \/ TimerStarts
    \/ CommandResolves
    \/ TimerFires
    \/ ProcessEnds

SpecCli == InitCli /\ [][NextCli]_vars

(***************************************************************************)
(* The keychain: SecurityManager                                           *)
(***************************************************************************)

\* The passwords of the service KEYCHAIN_SERVICE are a map from the account
\* to the password: keytar.setPassword, getPassword (null when there is
\* none), deletePassword (whether there was one) and findCredentials.
setPassword(kc, account, password) == Put(kc, account, password)
getPassword(kc, account) == Get(kc, account)
deletePassword(kc, account) == Del(kc, account)
findCredentials(kc) == DOMAIN kc

\* `${account}:metadata`
MetadataKey(account) == account \o ":metadata"

\* account.endsWith(suffix)
EndsWithText(account, suffix) ==
    /\ Len(account) >= Len(suffix)
    /\ SubSeq(account, Len(account) - Len(suffix) + 1, Len(account)) = suffix

\* No metadata: undefined.
NoMetadata == [undefined |-> TRUE]

\* The metadata a secret is stored with: none, or an object.
Metadatas == {NoMetadata, EmptyObj, [description |-> "one"], [description |-> "two"]}

\* JSON.stringify(metadata), of an object of at most one string.
JSONstringify(metadata) ==
    IF DOMAIN metadata = {} THEN "{}"
    ELSE "{\"description\":\"" \o metadata.description \o "\"}"

\* JSON.parse(text): the object the text is the JSON of; [throws |-> TRUE]
\* when the text is not JSON.
JSONparse(text) ==
    LET objects == {m \in Metadatas \ {NoMetadata} : JSONstringify(m) = text}
    IN  IF objects = {} THEN [throws |-> TRUE] ELSE CHOOSE m \in objects : TRUE

\* The messages of the errors.
KeychainDisabled == "Keychain integration is disabled"
KeytarError == "keytar failed"
FailedTo(what) == "Failed to " \o what \o " keychain: " \o KeytarError

\* A call returned value, or threw err, after calls calls of keytar that left
\* the keychain as kc.
Returned(value, kc, calls) == [ok |-> TRUE, value |-> value, err |-> "", keychain |-> kc, calls |-> calls]
Thrown(err, kc, calls) == [ok |-> FALSE, value |-> Undef, err |-> err, keychain |-> kc, calls |-> calls]

\* getSecret returned null.
NullEntry == [null |-> TRUE]

\* A KeychainEntry.
KeychainEntry(account, password, metadata) ==
    [account |-> account, password |-> password, metadata |-> metadata]

\* storeSecret(account, password, metadata), where the call fault of keytar
\* throws (0: none does).
storeSecretUnguarded(config, kc, account, password, metadata, fault) ==
    IF fault = 1 THEN Thrown(FailedTo("store secret in"), kc, 1)
    ELSE LET stored == setPassword(kc, account, password)
         IN  IF metadata # NoMetadata
             THEN IF fault = 2 THEN Thrown(FailedTo("store secret in"), stored, 2)
                  ELSE Returned(Undef, setPassword(stored, MetadataKey(account), JSONstringify(metadata)), 2)
             ELSE Returned(Undef, stored, 1)

storeSecret(config, kc, account, password, metadata, fault) ==
    IF ~config.keychainIntegration THEN Thrown(KeychainDisabled, kc, 0)
    ELSE IF fault = 1 THEN Thrown(FailedTo("store secret in"), kc, 1)
    ELSE LET stored == setPassword(kc, account, password)
         IN  IF metadata # NoMetadata
             THEN IF fault = 2 THEN Thrown(FailedTo("store secret in"), stored, 2)
                  ELSE Returned(Undef, setPassword(stored, MetadataKey(account), JSONstringify(metadata)), 2)
             ELSE Returned(Undef, stored, 1)

\* The metadata getSecret makes of what the keychain holds at the metadata
\* key: errors are ignored.
MetadataOf(metadataJson) ==
    IF ~Truthy(metadataJson) THEN NoMetadata
    ELSE IF JSONparse(metadataJson) = [throws |-> TRUE] THEN NoMetadata
    ELSE JSONparse(metadataJson)

\* getSecret(account)
getSecret(config, kc, account, fault) ==
    IF ~config.keychainIntegration THEN Thrown(KeychainDisabled, kc, 0)
    ELSE IF fault = 1 THEN Thrown(FailedTo("retrieve secret from"), kc, 1)
    ELSE LET password == getPassword(kc, account)
         IN  IF ~Truthy(password) THEN Returned(NullEntry, kc, 1)
             ELSE IF fault = 2 THEN Returned(KeychainEntry(account, password, NoMetadata), kc, 2)
             ELSE Returned(KeychainEntry(account, password,
                               MetadataOf(getPassword(kc, MetadataKey(account)))), kc, 2)

\* deleteSecret(account)
deleteSecret(config, kc, account, fault) ==
    IF ~config.keychainIntegration THEN Thrown(KeychainDisabled, kc, 0)
    ELSE IF fault = 1 THEN Thrown(FailedTo("delete secret from"), kc, 1)
    ELSE LET deleted == account \in DOMAIN kc
             left == deletePassword(kc, account)
         IN  IF fault = 2 THEN Returned(deleted, left, 2)
             ELSE Returned(deleted, deletePassword(left, MetadataKey(account)), 2)

\* listSecrets()
listSecrets(config, kc, fault) ==
    IF ~config.keychainIntegration THEN Thrown(KeychainDisabled, kc, 0)
    ELSE IF fault = 1 THEN Thrown(FailedTo("list secrets from"), kc, 1)
    ELSE Returned({account \in findCredentials(kc) : ~EndsWithText(account, ":metadata")}, kc, 1)

(***************************************************************************)
(* The state machine of the keychain                                       *)
(***************************************************************************)

\* The accounts and the passwords of the calls; the call of keytar that throws
\* (0: none).
Accounts == {"api", "db", "api:metadata"}
Passwords == {"p1", "p2"}
Faults == 0..2

\* The number of calls on the SecurityManager in a run.
MaxSecretCalls == 3

\* What the calls that resolved say of an account: nothing was stored or it
\* was deleted ("none"), the password and the metadata of the last
\* storeSecret ("stored"), or a call on it threw half way ("unknown").
NotSupplied == [state |-> "none", password |-> "", metadata |-> NoMetadata]
SuppliedWith(password, metadata) == [state |-> "stored", password |-> password, metadata |-> metadata]
SuppliedUnknown == [state |-> "unknown", password |-> "", metadata |-> NoMetadata]

\* The SecurityManager after the call op on account with the outcome r.
AfterSecret(op, account, r, supplied) ==
    [config |-> security.config, op |-> op, account |-> account, ok |-> r.ok,
     value |-> r.value, err |-> r.err, calls |-> r.calls, supplied |-> supplied,
     left |-> security.left - 1]

\* What is known of account after a call on it with the outcome r, which
\* leaves known when it resolves.
SuppliedAfter(account, r, known) ==
    IF r.ok THEN [security.supplied EXCEPT ![account] = known]
    ELSE IF r.calls = 0 THEN security.supplied
    ELSE [security.supplied EXCEPT ![account] = SuppliedUnknown]

\* new SecurityManager(config), on a keychain that holds nothing of the service.
InitKeychain ==
    /\ adapter = "claude"
    /\ files = DiskOf(adapter, Absent, Absent, Absent)
    /\ backups = [id \in AllBackupIds |-> NoBackup]
    /\ now = 0
    /\ last = [op |-> "init", ok |-> TRUE, err |-> <<>>]
    /\ held = [id \in AllBackupIds |-> NoHeld]
    /\ budget = 0
    /\ registryFile = NoRegistryFile
    /\ registry = NullRegistry
    /\ lastLoaded = NoTime
    /\ searched = NoFound
    /\ fileReads = 0
    /\ callers = NoCallers
    /\ cli = NoCli
    /\ keychain = NoKeychain
    /\ \E enabled \in BOOLEAN :
          security = [config |-> [keychainIntegration |-> enabled], op |-> "new",
                      account |-> "", ok |-> TRUE, value |-> Undef, err |-> "", calls |-> 0,
                      supplied |-> [a \in Accounts |-> NotSupplied], left |-> MaxSecretCalls]

UpdateConfig ==
    /\ security.left > 0
    /\ \E enabled \in BOOLEAN :
          security' = [security EXCEPT !.config = [keychainIntegration |-> enabled],
                                       !.op = "updateConfig", !.account = "", !.ok = TRUE,
                                       !.value = Undef, !.err = "", !.calls = 0,
                                       !.left = security.left - 1]
    /\ UNCHANGED <<adapterVars, now, registryVars, cli, keychain>>

StoreSecret ==
    /\ security.left > 0
    /\ \E account \in Accounts, password \in Passwords, metadata \in Metadatas, fault \in Faults :
          LET r == storeSecret(security.config, keychain, account, password, metadata, fault)
          IN  /\ keychain' = r.keychain
              /\ security' = AfterSecret("storeSecret", account, r,
                                 SuppliedAfter(account, r, SuppliedWith(password, metadata)))
    /\ UNCHANGED <<adapterVars, now, registryVars, cli>>

GetSecret ==
    /\ security.left > 0
    /\ \E account \in Accounts, fault \in Faults :
          LET r == getSecret(security.config, keychain, account, fault)
          IN  /\ keychain' = r.keychain
              /\ security' = AfterSecret("getSecret", account, r, security.supplied)
    /\ UNCHANGED <<adapterVars, now, registryVars, cli>>

DeleteSecret ==
    /\ security.left > 0
    /\ \E account \in Accounts, fault \in Faults :
          LET r == deleteSecret(security.config, keychain, account, fault)
          IN  /\ keychain' = r.keychain
              /\ security' = AfterSecret("deleteSecret", account, r,
                                 SuppliedAfter(account, r, NotSupplied))
    /\ UNCHANGED <<adapterVars, now, registryVars, cli>>

ListSecrets ==
    /\ security.left > 0
    /\ \E fault \in Faults :
          LET r == listSecrets(security.config, keychain, fault)
          IN  /\ keychain' = r.keychain
              /\ security' = AfterSecret("listSecrets", "", r, security.supplied)
    /\ UNCHANGED <<adapterVars, now, registryVars, cli>>

NextKeychain ==
    \/ UpdateConfig
    \/ StoreSecret
    \/ GetSecret
    \/ DeleteSecret
    \/ ListSecrets

SpecKeychain == InitKeychain /\ [][NextKeychain]_vars

(***************************************************************************)
(* Translation between the formats of the agents                           *)
(***************************************************************************)

\* AgentType
AgentTypes == {"claude", "gemini", "cursor", "vscode", "windsurf", "cline", "visual-studio"}

\* The key under which the configuration of an agent keeps its servers.
SchemaOf(agentType) == IF agentType = "vscode" THEN "servers" ELSE "mcpServers"

\* url.includes(part)
IncludesText(url, part) ==
    \E i \in 1..(Len(url) - Len(part) + 1) : SubSeq(url, i, i + Len(part) - 1) = part

\* serverConfig.serverUrl || serverConfig.url
UrlOf(serverConfig) ==
    IF Truthy(Get(serverConfig, "serverUrl")) THEN serverConfig.serverUrl
    ELSE Get(serverConfig, "url")

\* serverConfig.disabled || false
DisabledOf(serverConfig) ==
    IF "disabled" \in DOMAIN serverConfig THEN serverConfig.disabled ELSE FALSE

\* normalizeServerConfig(serverConfig) of the two adapters
normalizeServerConfig(agent, serverConfig) ==
    IF agent = "claude"
    THEN IF Truthy(UrlOf(serverConfig))
         THEN [serverUrl |-> UrlOf(serverConfig)]
         ELSE [command |-> OrElse(serverConfig, "command", "npx"),
               args |-> OrElseObj(serverConfig, "args", <<>>),
               env |-> OrElseObj(serverConfig, "env", {})]
    ELSE IF Truthy(UrlOf(serverConfig))
         THEN [type |-> IF \/ IncludesText(UrlOf(serverConfig), "sse")
                           \/ EndsWithText(UrlOf(serverConfig), "/events")
                           \/ IncludesText(UrlOf(serverConfig), "/stream")
                        THEN "sse" ELSE "http",
               url |-> UrlOf(serverConfig),
               disabled |-> DisabledOf(serverConfig)]
         ELSE [type |-> "local",
               command |-> OrElse(serverConfig, "command", "npx"),
               args |-> OrElseObj(serverConfig, "args", <<>>),
               env |-> OrElseObj(serverConfig, "env", {}),
               disabled |-> DisabledOf(serverConfig)]

\* The servers importFromAgent takes from sourceConfig: the switch on sourceAgent.
SourceServers(agent, sourceConfig, sourceAgent) ==
    IF agent = "claude"
    THEN CASE sourceAgent \in {"cursor", "gemini", "cline", "windsurf"} ->
                 OrElseObj(sourceConfig, "mcpServers", EmptyObj)
           [] sourceAgent = "vscode" -> OrElseObj(sourceConfig, "servers", EmptyObj)
           [] OTHER -> EmptyObj
    ELSE CASE sourceAgent \in {"claude", "cursor", "gemini", "cline", "windsurf"} ->
                 OrElseObj(sourceConfig, "mcpServers", OrElseObj(sourceConfig, "servers", EmptyObj))
           [] OTHER -> EmptyObj

\* importFromAgent(sourceConfig, sourceAgent) of the two adapters
importFromAgent(agent, sourceConfig, sourceAgent) ==
    LET sourceServers == SourceServers(agent, sourceConfig, sourceAgent)
    IN  createConfigWithServers(agent,
            [serverId \in DOMAIN sourceServers |->
                normalizeServerConfig(agent, sourceServers[serverId])])

\* The configurations of a source agent that are translated.
SourceConfigs(sourceAgent) ==
    LET format == IF sourceAgent = "vscode" THEN "vscode" ELSE "claude"
    IN  {Put(EmptyObj, SchemaOf(sourceAgent), servers) :
            servers \in {EmptyObj,
                         [github |-> PythonEntry(format)],
                         [github |-> HttpEntry(format), files |-> PythonEntry(format)]}}

(***************************************************************************)
(* The list command: the servers it collects                               *)
(***************************************************************************)

\* agentAdapters[agent]: the adapter the list command asks for the servers of
\* the agent
agentAdapters(agent) == IF agent = "vscode" THEN "vscode" ELSE "claude"

\* adapter.isInstalled()
isInstalled(fs, agent) ==
    findConfigFile(fs, agent, "user") # "" \/ findConfigFile(fs, agent, "project") # ""

\* adapter.getInstalledServers(scope): the ids; none when read rejects
getInstalledServers(fs, agent, scope) ==
    LET r == read(fs, agent, scope)
    IN  IF r.ok THEN DOMAIN extractServers(agent, r.config) ELSE {}

\* The agents the list command goes through: options.agent, or all.
ListedAgents(agentOption) == IF agentOption = Undef THEN AgentTypes ELSE {agentOption}

\* collectServerInfo(options): the id, agent and scope of each entry, when
\* getServerInfo returns one for each server.
collectServerInfo(fs, agentOption) ==
    {[id |-> e[3], agent |-> e[1], scope |-> e[2]] :
        e \in {x \in ListedAgents(agentOption) \X Scopes \X ServerIds :
                  /\ isInstalled(fs, agentAdapters(x[1]))
                  /\ x[3] \in getInstalledServers(fs, agentAdapters(x[1]), x[2])}}

(***************************************************************************)
(* The claims                                                              *)
(***************************************************************************)

\* The message of a rejection has part among its parts.
Mentions(err, part) == \E i \in DOMAIN err : err[i] = part

\* What read(scope) returns for a configuration with no servers.
EmptyRead(agent) ==
    [ok |-> TRUE, err |-> <<>>, config |-> createConfigWithServers(agent, EmptyObj)]

\* C1: whenever validate rejects config, write(config, scope) rejects with an
\* error mentioning 'Invalid configuration' and leaves the disk exactly as it
\* was, whatever the file at the path is (absent, unwritable, or a
\* configuration), so validation comes before any access to the disk.
C1_WriteRejectsInvalid ==
    \A scope \in Scopes, config \in ConfigArgs(adapter) :
        LET r == write(files, adapter, config, scope)
        IN  ~validate(adapter, config).valid =>
               /\ ~r.ok
               /\ Mentions(r.err, "Invalid configuration")
               /\ r.fs = files

\* A write was rejected for an invalid configuration and no file of the
\* user scope was created.
C1_Witness ==
    /\ last.op = "write"
    /\ ~last.ok
    /\ Mentions(last.err, "Invalid configuration")
    /\ files[getAgentConfigPath(adapter, "user")] = Absent
\* The stored configuration after a successful add or update r of (id, cfg) at
\* scope is the one stored before with id mapped to the transformed cfg and to
\* nothing else, and with every other entry as it was.
AddedAsClaimed(r, id, cfg, scope) ==
    LET before == read(files, adapter, scope)
        after == read(r.fs, adapter, scope)
        entry == transformServerConfig(adapter, id, cfg, OrElse(cfg, "transport", "stdio"))
    IN  r.ok =>
           /\ before.ok
           /\ after.ok
           /\ DOMAIN extractServers(adapter, after.config)
                 = DOMAIN extractServers(adapter, before.config) \cup {id}
           /\ extractServers(adapter, after.config)[id] = entry
           /\ \A other \in DOMAIN extractServers(adapter, before.config) \ {id} :
                 extractServers(adapter, after.config)[other]
                    = extractServers(adapter, before.config)[other]

\* C2: after addServer(id, cfg, scope) or updateServer(id, cfg, scope) succeeds,
\* the stored configuration maps id to exactly the adapter's transformed form
\* of cfg (no field of an entry stored under id before survives), and every
\* other server entry stored before the call is stored unchanged.
C2_AddReplacesOneEntry ==
    \A scope \in Scopes, id \in ServerIds, cfg \in ServerConfigs :
        /\ AddedAsClaimed(addServer(files, adapter, id, cfg, scope), id, cfg, scope)
        /\ AddedAsClaimed(updateServer(files, adapter, id, cfg, scope), id, cfg, scope)

\* An add or update succeeded and the stored configuration of the user scope
\* holds two servers, of which at most one is the call's.
C2_Witness ==
    /\ last.op \in {"addServer", "updateServer"}
    /\ last.ok
    /\ LET c == read(files, adapter, "user")
       IN  c.ok /\ DOMAIN extractServers(adapter, c.config) = ServerIds

C4_MergePrecedence ==
    \A scope \in Scopes, source \in ConfigArgs(adapter), overwrite \in BOOLEAN :
        LET before == read(files, adapter, scope)
            r == mergeConfig(files, adapter, source, scope, overwrite)
            after == read(r.fs, adapter, scope)
            current == extractServers(adapter, before.config)
            given == extractServers(adapter, source)
            merged == extractServers(adapter, after.config)
        IN  r.ok =>
               /\ before.ok
               /\ after.ok
               /\ r.fs[getAgentConfigPath(adapter, scope)].kind = "json"
               /\ DOMAIN merged = DOMAIN current \cup DOMAIN given
               /\ \A id \in DOMAIN current \cap DOMAIN given :
                     merged[id] = IF overwrite THEN given[id] ELSE current[id]
               /\ \A id \in DOMAIN current \ DOMAIN given : merged[id] = current[id]
               /\ \A id \in DOMAIN given \ DOMAIN current : merged[id] = given[id]

\* A mergeConfig succeeded and the user-scope file, which it wrote, holds two
\* servers.
C4_Witness ==
    /\ last.op = "mergeConfig"
    /\ last.ok
    /\ files[getAgentConfigPath(adapter, "user")].layout = "pretty"
    /\ DOMAIN extractServers(adapter, files[getAgentConfigPath(adapter, "user")].val) = ServerIds

C6_ReadReturnsValid ==
    \A scope \in Scopes :
        LET r == read(files, adapter, scope)
            configPath == findConfigFile(files, adapter, scope)
            f == files[configPath]
        IN  /\ r.ok => validate(adapter, r.config).valid
            /\ ~r.ok => Head(r.err) = "Failed to read configuration"
            /\ (/\ configPath # ""
                /\ \/ f \in {Garbage, NoAccess}
                   \/ f.kind = "json" /\ ~validate(adapter, f.val).valid)
                  => ~r.ok

\* A read was rejected with 'Failed to read configuration' while the
\* user-scope file holds JSON.
C6_Witness ==
    /\ last.op = "read"
    /\ ~last.ok
    /\ Head(last.err) = "Failed to read configuration"
    /\ files[getAgentConfigPath(adapter, "user")].kind = "json"
\* The calls C7 names.
DestructiveOps ==
    {"addServer", "updateServer", "removeServer", "mergeConfig", "importConfig", "toggleServer"}

\* C7: every call of addServer, updateServer, removeServer, mergeConfig,
\* importConfig or toggleServer that overwrites an existing configuration file
\* leaves, at the moment of the overwrite, a backup that holds the previous
\* content of that file.
C7_BackupBeforeOverwrite ==
    [][\A p \in AllPaths :
          (/\ last'.op \in DestructiveOps
           /\ pathExists(files, p)
           /\ files'[p] # files[p])
          => \E b \in AllBackupIds :
                /\ backups'[b].exists
                /\ backups'[b].metadata.configPath = p
                /\ backups'[b].config = files[p].val]_vars

\* restore of backup b succeeds, and read(scope) then returns the configuration
\* it returned when backup(scope) returned b's path.
RestoresWhatWasRead(b) ==
    LET r == restore(files, backups, BackupPath(b), held[b].scope)
        after == read(r.fs, adapter, held[b].scope)
    IN  /\ r.ok
        /\ after.ok
        /\ after.config = held[b].config

\* C8: if backup(scope) succeeded while read(scope) returned C, then after any
\* calls of addServer, updateServer, removeServer and mergeConfig, restore of
\* the backup's path succeeds and read(scope) returns C again.
C8_BackupRestoreRoundTrip ==
    \A b \in AllBackupIds : held[b].taken => RestoresWhatWasRead(b)

\* A backup was taken and a later add, update, remove or merge changed what
\* read returns for the backup's scope.
C8_Witness ==
    /\ last.op \in {"addServer", "updateServer", "removeServer", "mergeConfig"}
    /\ last.ok
    /\ \E b \in AllBackupIds :
          /\ held[b].taken
          /\ LET c == read(files, adapter, held[b].scope)
             IN  c.ok /\ c.config # held[b].config

\* The backup ids restoreBackup is called with: those a backup can have, and one
\* no backup has.
BackupIdArgs == AllBackupIds \cup {"no-such-backup"}

\* C9: when there is no backup file for the id, or the checksum in the backup's
\* metadata differs from the checksum of the configuration the backup holds,
\* restoreBackup returns success = false with an error and leaves the disk as
\* it was.
C9_RestoreChecksIntegrity ==
    \A id \in BackupIdArgs :
        LET r == restoreBackup(files, backups, id)
            missing == id \notin DOMAIN backups \/ ~backups[id].exists
            damaged == calculateChecksum(Stringify(backups[id].config))
                          # backups[id].metadata.checksum
        IN  (missing \/ damaged) =>
               /\ ~r.success
               /\ r.error # <<>>
               /\ r.fs = files

\* A restore was rejected because the integrity check failed, while the file
\* the damaged backup would replace holds a configuration.
C9_Witness ==
    /\ last.op = "restore"
    /\ ~last.ok
    /\ Mentions(last.err, "Backup integrity check failed")
    /\ files[getAgentConfigPath(adapter, "user")].kind = "json"
\* The server satisfies the filter key supplied with value: a list-valued
\* filter when the server has at least one of the listed values, and an empty
\* filter always.
SatisfiesFilter(server, key, value) ==
    CASE key = "classification" ->
           value = <<>> \/ \E i \in DOMAIN value : value[i] = server.classification
      [] key = "transportTypes" ->
           value = <<>> \/ \E i \in DOMAIN value, j \in DOMAIN server.transportTypes :
                              value[i] = server.transportTypes[j]
      [] key = "supportedPlatforms" ->
           value = <<>> \/ \E i \in DOMAIN value, j \in DOMAIN server.supportedPlatforms :
                              value[i] = server.supportedPlatforms[j]
      [] key = "tags" ->
           value = <<>> \/ \E i \in DOMAIN value, j \in DOMAIN server.tags :
                              value[i] = server.tags[j]
      [] key = "maintainer" ->
           value = <<>> \/ includes(toLowerCase(server.maintainer), toLowerCase(value))
      [] key = "category" ->
           value = "" \/ ("category" \in DOMAIN server /\ server.category = value)
      [] key = "license" ->
           value = "" \/ ("license" \in DOMAIN server /\ server.license = value)
      [] key = "dockerSupport" -> server.dockerSupport = value
      [] key = "hasNpmPackage" ->
           ("npmPackage" \in DOMAIN server /\ server.npmPackage # "") = value
      [] key = "minDownloads" -> parseDownloads(server.estWeeklyDownloads) >= value
      [] OTHER -> TRUE

\* A search with filters, an empty query and no options finds exactly the
\* servers of the registry that satisfy every filter supplied.
FindsWhatSatisfies(filters) ==
    LET r == searchServers([registry |-> registry, lastLoaded |-> lastLoaded],
                           registryFile, now, filters, EmptyObj)
        servers == r.mgr.registry.servers
        satisfying == {i \in DOMAIN servers :
                          \A key \in DOMAIN filters :
                             SatisfiesFilter(servers[i], key, filters[key])}
        results == r.response.results
    IN  r.ok =>
           /\ r.response.total = Cardinality(satisfying)
           /\ Len(results) = r.response.total
           /\ {results[i].server : i \in DOMAIN results} = {servers[i] : i \in satisfying}

\* C10: searchServers with an empty query returns, before pagination, exactly
\* the registry servers that satisfy every filter supplied, the filters being
\* combined with AND; a list-valued filter is satisfied by a server that has at
\* least one of the listed values, and an omitted or empty filter excludes
\* nothing.
C10_FiltersCombineWithAnd ==
    /\ \A keys \in FilterKeySets : FindsWhatSatisfies(ValuedFilters(keys))
    /\ \A filters \in EmptyFilterArgs : FindsWhatSatisfies(filters)

\* A search with an empty query and several filters found some of the
\* servers of the registry and not all.
C10_Witness ==
    /\ searched.ok
    /\ searched.query = <<>>
    /\ searched.several
    /\ searched.total > 0
    /\ searched.total < Len(registry.servers)

\* The query matches the server: one of its name, title, description,
\* maintainer and tags contains it, whatever the case; or, with fuzzy matching
\* on, its name or its description spells it in order.
MatchesQuery(server, query, fuzzy) ==
    LET queryLower == toLowerCase(query)
    IN  \/ getMatchedFields(server, query) # <<>>
        \/ /\ fuzzy
           /\ \/ fuzzyMatch(queryLower, toLowerCase(server.name)) > 0
              \/ fuzzyMatch(queryLower, toLowerCase(server.description)) > 0

\* C11: a search with a non-empty query returns only servers that the query
\* matches in the name, title, description, maintainer or a tag, so that a
\* query matching no server of the registry returns no result and total 0.
C11_QueryReturnsOnlyMatches ==
    \A filters \in QueryArgs, options \in OptionArgs :
       LET r == searchServers([registry |-> registry, lastLoaded |-> lastLoaded],
                              registryFile, now, filters, options)
           results == r.response.results
       IN  r.ok =>
              /\ \A i \in DOMAIN results :
                    MatchesQuery(results[i].server, filters.query,
                                 Default(options, "fuzzy", TRUE))
              /\ (\A i \in DOMAIN r.mgr.registry.servers :
                     ~MatchesQuery(r.mgr.registry.servers[i], filters.query,
                                   Default(options, "fuzzy", TRUE)))
                 => results = <<>> /\ r.response.total = 0

\* The options that ask for each key and each direction of the sort, and the
\* default ones.
SortOptionArgs ==
    {EmptyObj, [sortOrder |-> "asc"]}
    \cup {[sortBy |-> key, sortOrder |-> order] :
             key \in {"relevance", "downloads", "name", "updated"}, order \in {"asc", "desc"}}

\* The value result a is sorted by does not exceed that of result b: the score,
\* the parsed weekly downloads, the lower-cased name, or the lastUpdated date.
KeyAtMost(a, b, sortBy) ==
    CASE sortBy = "relevance" -> a.score.num * b.score.den <= b.score.num * a.score.den
      [] sortBy = "downloads" ->
           parseDownloads(a.server.estWeeklyDownloads)
              <= parseDownloads(b.server.estWeeklyDownloads)
      [] sortBy = "name" ->
           localeCompare(toLowerCase(a.server.name), toLowerCase(b.server.name)) <= 0
      [] sortBy = "updated" ->
           DateTime(a.server.lastUpdated)[1] <= DateTime(b.server.lastUpdated)[1]

\* Each result and the one after it are in the order asked for.
InOrderAsked(results, sortBy, sortOrder) ==
    \A i \in 1..(Len(results) - 1) :
       IF sortOrder = "desc" THEN KeyAtMost(results[i + 1], results[i], sortBy)
       ELSE KeyAtMost(results[i], results[i + 1], sortBy)

\* C12: the results of a search are ordered by the key and in the direction
\* asked for: by score from the highest with the defaults, from the lowest with
\* sortOrder 'asc', and likewise by parsed weekly downloads, lower-cased name
\* and lastUpdated date with sortBy 'downloads', 'name' and 'updated'.
C12_ResultsSortedAsAsked ==
    \A filters \in QueryArgs \cup {EmptyObj}, options \in SortOptionArgs :
       LET r == searchServers([registry |-> registry, lastLoaded |-> lastLoaded],
                              registryFile, now, filters, options)
       IN  r.ok => InOrderAsked(r.response.results,
                                Default(options, "sortBy", "relevance"),
                                Default(options, "sortOrder", "desc"))

\* A search sorted by name from the lowest returned the four servers of the
\* registry in another order than the registry's.
C12_Witness ==
    /\ searched.ok
    /\ registry # NullRegistry
    /\ Len(registry.servers) = 4
    /\ registry.servers[1].id = "github"
    /\ searched.ids = <<"files", "github", "gitlab", "postgres">>

\* The largest offset and the largest limit of the pages asked for: above the
\* number of servers of the largest registry.
MaxPage == 5

\* The options that ask for a page, or for the default one, of the default
\* sort and of the sort by name.
PageOptionArgs ==
    {EmptyObj, [limit |-> 2], [offset |-> 1], [sortBy |-> "name", sortOrder |-> "asc"]}
    \cup {[offset |-> offset, limit |-> limit] :
             offset \in 0..MaxPage, limit \in {0, 1, 2, MaxPage}}
    \cup {[offset |-> offset, limit |-> 2, sortBy |-> "name"] : offset \in 0..MaxPage}

\* The options without the page asked for: the matches fit the default page.
WholeList(options) ==
    [key \in DOMAIN options \ {"offset", "limit"} |-> options[key]]

\* The response to filters and options is the page asked for of the sorted
\* matches, with their number and whether more follow.
IsPageAsked(filters, options) ==
    LET mgr == [registry |-> registry, lastLoaded |-> lastLoaded]
        r == searchServers(mgr, registryFile, now, filters, options)
        all == searchServers(mgr, registryFile, now, filters, WholeList(options))
        matches == all.response.results
        offset == Default(options, "offset", 0)
        limit == Default(options, "limit", 50)
        results == r.response.results
    IN  r.ok =>
           /\ all.ok
           /\ Len(results) <= limit
           /\ r.response.total = Len(matches)
           /\ \A i \in DOMAIN results : results[i] = matches[offset + i]
           /\ \A i \in DOMAIN matches :
                 (offset < i /\ i <= offset + limit) => (i - offset) \in DOMAIN results
           /\ r.response.hasMore = (offset + limit < r.response.total)

C14_ImportReplacesOrMerges ==
    \A scope \in Scopes, config \in ConfigArgs(adapter) :
        LET replaced == importConfig(files, adapter, config, scope, FALSE)
            after == read(replaced.fs, adapter, scope)
            imported == importConfig(files, adapter, config, scope, TRUE)
            merged == mergeConfig(files, adapter, config, scope, FALSE)
        IN  /\ replaced.ok =>
                 /\ replaced.fs[getAgentConfigPath(adapter, scope)] = StringifyPretty(config)
                 /\ \A p \in AllPaths \ {getAgentConfigPath(adapter, scope)} :
                       replaced.fs[p] = files[p]
                 /\ after.ok
                 /\ after.config = config
                 /\ extractServers(adapter, after.config) = extractServers(adapter, config)
            /\ imported.ok = merged.ok
            /\ imported.fs = merged.fs

\* An importConfig succeeded and the user-scope file, which it wrote, holds
\* one server only.
C14_Witness ==
    /\ last.op = "importConfig"
    /\ last.ok
    /\ files[getAgentConfigPath(adapter, "user")].layout = "pretty"
    /\ Cardinality(DOMAIN extractServers(adapter,
                      files[getAgentConfigPath(adapter, "user")].val)) = 1

\* C15 as it is stated: any error raised while a command runs ends the process
\* with exit status 1, so that no invocation in which a call failed ends with
\* status 0.
C15_AnyErrorExitsWithOne ==
    (cli.ended /\ cli.raised # {}) => cli.exitCode = 1

\* The failures that the code catches below the command and goes on from: of
\* the metadata entry of a secret when it is read or deleted, of the entry of
\* one account that the verbose list loads, and of one agent, scope or server
\* that the list command collects.
IgnoredByDesign ==
    {"keytar.getPassword (metadata)", "keytar.deletePassword (metadata)",
     "securityManager.getSecret (list, first)", "securityManager.getSecret (list, second)",
     "keytar.getPassword (metadata, list, first)",
     "keytar.getPassword (metadata, list, second)",
     "adapter.isInstalled", "adapter.getInstalledServers",
     "registryManager.getServer (list)", "adapter.getConfigStats", "adapter.read"}

\* C15 (amended): any error raised while a command runs, other than a failure
\* that the code catches below the command and ignores (IgnoredByDesign), is
\* caught at the command boundary and the process ends with exit status 1: as
\* soon as such an error has been raised the process has ended with status 1,
\* and no invocation in which one was raised ends with status 0.
C15_UnignoredErrorExitsWithOne ==
    (cli.raised \ IgnoredByDesign # {}) => (cli.ended /\ cli.exitCode = 1)

\* keychain set reading the secret from stdin has failed to store it: the
\* error left the command as a rejection and main's catch ended the process
\* with status 1.
C15_Witness ==
    /\ cli.command = "keychain set --no-interactive"
    /\ cli.raised = {"securityManager.storeSecret (stdin)"}
    /\ cli.ended /\ cli.exitCode = 1 /\ ~cli.resolved

\* C16: once the registry has been loaded, neither loading it again nor any
\* further operation of the registry reads the registry file again (the code
\* has no forced reload): a step taken when a registry is loaded leaves the
\* number of reads of the file as it was.
C16_LoadedRegistryIsNotReadAgain ==
    [][registry # NullRegistry => fileReads' = fileReads]_vars

\* The calls that are under way and have started a read of the registry file.
ReadsInFlight == {c \in DOMAIN callers : callers[c].pc = "reading" /\ callers[c].reads > 0}

\* C17: when several loads, or operations that trigger a load, are under way
\* at once, the registry file has been read once for all of them: at most one
\* of the calls under way has started a read of the file.
C17_ConcurrentLoadsReadOnce == Cardinality(ReadsInFlight) <= 1

\* C18: when the registry file is missing or is not JSON, a load that has
\* completed has not failed, and a getStats that has completed has resolved
\* with totalServers 0.
C18_UnreadableRegistryIsEmpty ==
    (~registryFile.readable \/ ~registryFile.json) =>
        \A c \in DOMAIN callers :
            callers[c].pc = "done" =>
                /\ callers[c].op.name = "loadRegistry" => callers[c].ok
                /\ callers[c].op.name = "getStats" => callers[c].ok /\ callers[c].count = 0

\* C19: no operation of the registry changes the loaded servers: a step taken
\* when a registry is loaded leaves the same servers, with the same fields, in
\* the same order.
C19_RegistryImmutableOnceLoaded ==
    [][registry # NullRegistry => registry' = registry]_vars

\* getStats has resolved with recentlyUpdated starting with another server
\* than the loaded servers start with, and a search sorted by name has
\* resolved starting with yet another.
C19_Witness ==
    /\ registry # NullRegistry
    /\ registry.servers = registryFile.servers
    /\ \E c \in DOMAIN callers :
          /\ callers[c].pc = "done" /\ callers[c].op.name = "getStats" /\ callers[c].ok
          /\ callers[c].count = 3
          /\ callers[c].first = "postgres" /\ registry.servers[1].id = "files"
    /\ \E c \in DOMAIN callers :
          /\ callers[c].pc = "done" /\ callers[c].op.name = "searchServers" /\ callers[c].ok
          /\ callers[c].first = "files" /\ callers[c].reads = 0

\* C20: when the promise that a command returns resolves, all that the
\* command does has been done: no timer that the command started is pending.
C20_NothingPendingWhenCommandResolves ==
    cli.resolved => cli.timers = 0

\* A SecurityManager with the keychain integration on.
KeychainOn == [keychainIntegration |-> TRUE]

\* C21: when storeSecret(account, password, metadata) resolves, getSecret(account)
\* returns {account, password, metadata}; getSecret of an account that was
\* never stored, or that deleteSecret deleted, returns null.
C21_StoredSecretIsReturned ==
    /\ \A account \in Accounts, password \in Passwords, metadata \in Metadatas :
          LET r == storeSecret(KeychainOn, keychain, account, password, metadata, 0)
          IN  getSecret(KeychainOn, r.keychain, account, 0).value
                  = KeychainEntry(account, password, metadata)
    /\ \A account \in Accounts :
          LET r == deleteSecret(KeychainOn, keychain, account, 0)
          IN  getSecret(KeychainOn, r.keychain, account, 0).value = NullEntry
    /\ \A account \in Accounts :
          security.supplied[account].state = "none"
              => getSecret(KeychainOn, keychain, account, 0).value = NullEntry

\* C22: while keychainIntegration is false, storeSecret, getSecret,
\* deleteSecret and listSecrets each reject with 'Keychain integration is
\* disabled', call keytar not once and leave the keychain as it was.
RejectsAsDisabled(r) ==
    ~r.ok /\ r.err = KeychainDisabled /\ r.calls = 0 /\ r.keychain = keychain

C22_DisabledKeychainIsNotTouched ==
    ~security.config.keychainIntegration =>
        /\ \A account \in Accounts, password \in Passwords, metadata \in Metadatas, fault \in Faults :
              RejectsAsDisabled(storeSecret(security.config, keychain, account, password, metadata, fault))
        /\ \A account \in Accounts, fault \in Faults :
              /\ RejectsAsDisabled(getSecret(security.config, keychain, account, fault))
              /\ RejectsAsDisabled(deleteSecret(security.config, keychain, account, fault))
        /\ \A fault \in Faults :
              RejectsAsDisabled(listSecrets(security.config, keychain, fault))

\* A secret was stored, the integration was switched off, and the next
\* storeSecret was rejected.
C22_Witness ==
    /\ security.op = "storeSecret"
    /\ ~security.config.keychainIntegration
    /\ security.err = KeychainDisabled
    /\ keychain # NoKeychain

\* The weight of each field that a query is looked for in.
FieldWeights == [name |-> 10, title |-> 8, description |-> 5, maintainer |-> 3, tags |-> 4]

\* The field of the server contains the query, whatever the case.
FieldContains(server, field, query) ==
    IF field = "tags"
    THEN \E i \in DOMAIN server.tags : includes(toLowerCase(server.tags[i]), toLowerCase(query))
    ELSE includes(toLowerCase(server[field]), toLowerCase(query))

\* The sum of the weights of the fields.
WeightOf(fields) ==
    (IF "name" \in fields THEN FieldWeights.name ELSE 0)
    + (IF "title" \in fields THEN FieldWeights.title ELSE 0)
    + (IF "description" \in fields THEN FieldWeights.description ELSE 0)
    + (IF "maintainer" \in fields THEN FieldWeights.maintainer ELSE 0)
    + (IF "tags" \in fields THEN FieldWeights.tags ELSE 0)

\* The boosts of a server: 2 above 10000 weekly downloads, else 1 above 1000;
\* and 2 when it is official.
BoostOf(server) ==
    (IF parseDownloads(server.estWeeklyDownloads) > 10000 THEN 2
     ELSE IF parseDownloads(server.estWeeklyDownloads) > 1000 THEN 1 ELSE 0)
    + (IF server.classification = "official" THEN 2 ELSE 0)

\* The result of a search for query has the score and the matched fields of
\* the claim; the scores are fractions of denominator 2 * query.length.
ScoredAsClaimed(result, query, fuzzy) ==
    LET contributing == {f \in DOMAIN FieldWeights : FieldContains(result.server, f, query)}
        den == 2 * Len(query)
        bonus == IF contributing = {} /\ fuzzy
                 THEN (2 * fuzzyMatch(toLowerCase(query), toLowerCase(result.server.name)))
                      + fuzzyMatch(toLowerCase(query), toLowerCase(result.server.description))
                 ELSE 0
    IN  /\ result.score = Score(((WeightOf(contributing) + BoostOf(result.server)) * den) + bonus, den)
        /\ {result.matchedFields[j] : j \in DOMAIN result.matchedFields} = contributing
        /\ Len(result.matchedFields) = Cardinality(contributing)

OtherScope(scope) == IF scope = "project" THEN "user" ELSE "project"

\* The call that ends as r on the disk fs, and as alone on the same disk
\* without the file of the other scope, wrote nothing to that file and did to
\* the file of its scope what it does alone.
IsolatedIn(fs, scope, r, alone) ==
    /\ r.fs[getAgentConfigPath(adapter, OtherScope(scope))]
           = fs[getAgentConfigPath(adapter, OtherScope(scope))]
    /\ r.ok = alone.ok
    /\ r.fs[getAgentConfigPath(adapter, scope)] = alone.fs[getAgentConfigPath(adapter, scope)]

\* The disk without the file of the other scope.
WithoutOther(fs, scope) == [fs EXCEPT ![getAgentConfigPath(adapter, OtherScope(scope))] = Absent]

\* C24: addServer, updateServer, removeServer and mergeConfig on a scope take
\* their starting servers from the file of that scope only and write that file
\* only: the file of the other scope is unchanged, and the outcome and the file
\* written are what they are when the other scope has no file.
C24_ScopesAreIsolated ==
    \A scope \in Scopes :
        /\ \A serverId \in ServerIds, serverConfig \in ServerConfigs :
              /\ IsolatedIn(files, scope,
                            addServer(files, adapter, serverId, serverConfig, scope),
                            addServer(WithoutOther(files, scope), adapter, serverId, serverConfig, scope))
              /\ IsolatedIn(files, scope,
                            updateServer(files, adapter, serverId, serverConfig, scope),
                            updateServer(WithoutOther(files, scope), adapter, serverId, serverConfig, scope))
        /\ \A serverId \in ServerIds :
              IsolatedIn(files, scope,
                         removeServer(files, adapter, serverId, scope),
                         removeServer(WithoutOther(files, scope), adapter, serverId, scope))
        /\ \A sourceConfig \in ConfigArgs(adapter), overwrite \in BOOLEAN :
              IsolatedIn(files, scope,
                         mergeConfig(files, adapter, sourceConfig, scope, overwrite),
                         mergeConfig(WithoutOther(files, scope), adapter, sourceConfig, scope, overwrite))

\* C25: a restoreBackup that succeeds writes the configuration of the backup
\* to the file the backup was taken from, the configPath of the backup's
\* metadata, and to no other file; the RestoreResult reports that configPath.
C25_RestoreWritesBackedUpFile ==
    \A b \in AllBackupIds :
        backups[b].exists =>
            LET r == restoreBackup(files, backups, b)
                configPath == backups[b].metadata.configPath
            IN  r.success =>
                   /\ r.configPath = configPath
                   /\ r.fs[configPath] = StringifyPretty(backups[b].config)
                   /\ \A p \in AllPaths \ {configPath} : r.fs[p] = files[p]

\* C26: for every agent type given as sourceAgent, importFromAgent(sourceConfig,
\* sourceAgent) on the Claude and on the VS Code adapter returns a
\* configuration whose server ids are exactly the server ids of sourceConfig.
C26_TranslationKeepsServerIds ==
    \A sourceAgent \in AgentTypes :
        \A sourceConfig \in SourceConfigs(sourceAgent) :
            DOMAIN extractServers(adapter, importFromAgent(adapter, sourceConfig, sourceAgent))
                = DOMAIN sourceConfig[SchemaOf(sourceAgent)]

\* The server ids stored in the configuration files of the agent itself; the
\* disk holds no file of an agent other than claude and vscode.
OwnServerIds(fs, agent) ==
    IF agent \notin Adapters THEN {}
    ELSE UNION {IF fs[p].kind = "json" /\ ServersKey(agent) \in DOMAIN fs[p].val
                THEN DOMAIN extractServers(agent, fs[p].val) ELSE {} : p \in AgentPaths(agent)}

\* C27: every entry of the list command labelled with an agent is a server id
\* stored in a configuration file of that agent, so that an agent with no
\* configuration file of its own has no entry.
C27_ListedUnderOwnAgent ==
    \A agentOption \in AgentTypes \cup {Undef} :
        \A e \in collectServerInfo(files, agentOption) : e.id \in OwnServerIds(files, e.agent)

\* C28: a configuration file that an operation of the tool writes holds, after
\* the write, a configuration that passes validate of the agent's adapter.
C28_WrittenFilesAreValid ==
    [][\A p \in AllPaths :
          files'[p] # files[p]
              => /\ files'[p].kind = "json"
                 /\ validate(adapter, files'[p].val).valid]_vars

\* The result says valid exactly when it has no error.
ValidIffNoError(result) == result.valid <=> result.errors = {}

\* C29: every result of validate of the base adapter and of the Claude and VS
\* Code adapters is valid exactly when its errors are empty; a configuration
\* with warnings and no error is valid, and write does not reject it as
\* invalid.
C29_ValidExactlyWhenNoError ==
    \A config \in ConfigArgs(adapter) :
        /\ ValidIffNoError(baseValidate(adapter, config))
        /\ ValidIffNoError(validate(adapter, config))
        /\ (validate(adapter, config).errors = {} /\ validate(adapter, config).warnings # {})
               => \A scope \in Scopes :
                     LET r == write(files, adapter, config, scope)
                     IN  r.ok \/ ~Mentions(r.err, "Invalid configuration")

\* A write put in a file a configuration that validate warns about.
C29_Witness ==
    /\ last.op = "write"
    /\ last.ok
    /\ \E p \in AllPaths :
          /\ files[p] \in {StringifyPretty(config) : config \in ConfigArgs(adapter)}
          /\ validate(adapter, files[p].val).warnings # {}

\* The metadata of what getSecret returns: undefined when it returns null.
MetadataReturned(r) == IF r.value = NullEntry THEN NoMetadata ELSE r.value.metadata

\* C30: after any storeSecret and deleteSecret calls, the metadata getSecret
\* returns for an account is the metadata of the last storeSecret of that
\* account that resolved (undefined when it had none), and when deleteSecret
\* of an account has resolved the keychain holds no '<account>:metadata' entry.
C30_MetadataIsOfLastStore ==
    /\ \A account \in Accounts :
          security.supplied[account].state = "stored"
              => MetadataReturned(getSecret(KeychainOn, keychain, account, 0))
                     = security.supplied[account].metadata
    /\ (security.op = "deleteSecret" /\ security.ok)
           => MetadataKey(security.account) \notin DOMAIN keychain

====
